---- MODULE Spec2Model ----
(***************************************************************************)
(* Model of the version-system repository: the VersionInfo value model,    *)
(* the VersionParser, the TagManager / TagPattern matcher, the             *)
(* VersionCalculator, VersionSystem.process_version_request (main.py) and  *)
(* the legacy get_version.py entry point.                                  *)
(*                                                                         *)
(* Python strings are sequences of one-character strings, so that regular  *)
(* expressions, int() and str() are modelled by what they do to the text.  *)
(* Python's None is NoneInt for Optional[int] and NoneStr for              *)
(* Optional[str]; the empty string is <<>>.                                *)
(***************************************************************************)
EXTENDS Integers, Sequences, FiniteSets, TLC

----------------------------------------------------------------------------
(* Bounds of the model *)

\* greatest value of a numeric component drawn as an input
MaxNum == 1

\* greatest number of tags in the repository
MaxTags == 2

----------------------------------------------------------------------------
(* Characters and strings *)

NoneInt == -1
NoneStr == <<"<None>">>

Digits == <<"0", "1", "2", "3", "4", "5", "6", "7", "8", "9">>

Letters ==
  {"a", "b", "c", "d", "e", "f", "g", "h", "i", "j", "k", "l", "m",
   "n", "o", "p", "q", "r", "s", "t", "u", "v", "w", "x", "y", "z",
   "A", "B", "C", "D", "E", "F", "G", "H", "I", "J", "K", "L", "M",
   "N", "O", "P", "Q", "R", "S", "T", "U", "V", "W", "X", "Y", "Z"}

\* the characters of the model in code-point order (Python compares str by code point)
AsciiOrder ==
  <<"\n", " ", "-", ".", "/",
    "0", "1", "2", "3", "4", "5", "6", "7", "8", "9", "@",
    "A", "B", "C", "D", "E", "F", "G", "H", "I", "J", "K", "L", "M",
    "N", "O", "P", "Q", "R", "S", "T", "U", "V", "W", "X", "Y", "Z", "_",
    "a", "b", "c", "d", "e", "f", "g", "h", "i", "j", "k", "l", "m",
    "n", "o", "p", "q", "r", "s", "t", "u", "v", "w", "x", "y", "z">>

Ord(c) == CHOOSE i \in 1..Len(AsciiOrder) : AsciiOrder[i] = c

IsDigit(c) == \E i \in 1..Len(Digits) : Digits[i] = c
IsAlpha(c) == c \in Letters
IsAlnum(c) == IsAlpha(c) \/ IsDigit(c)
IsSpace(c) == c \in {" ", "\n"}

\* Python: a < b on str
RECURSIVE StrLess(_, _)
StrLess(a, b) ==
  IF b = <<>> THEN FALSE
  ELSE IF a = <<>> THEN TRUE
  ELSE IF a[1] # b[1] THEN Ord(a[1]) < Ord(b[1])
  ELSE StrLess(Tail(a), Tail(b))

\* Python: str.strip()
RECURSIVE LStrip(_)
LStrip(s) == IF s # <<>> /\ IsSpace(s[1]) THEN LStrip(Tail(s)) ELSE s

RECURSIVE RStrip(_)
RStrip(s) ==
  IF s # <<>> /\ IsSpace(s[Len(s)]) THEN RStrip(SubSeq(s, 1, Len(s) - 1)) ELSE s

Strip(s) == RStrip(LStrip(s))

\* Python: int(text) for a text of decimal digits
DigitVal(c) == (CHOOSE i \in 1..Len(Digits) : Digits[i] = c) - 1

RECURSIVE Atoi(_)
Atoi(s) ==
  IF s = <<>> THEN 0
  ELSE Atoi(SubSeq(s, 1, Len(s) - 1)) * 10 + DigitVal(s[Len(s)])

\* Python: str(n) for a non-negative int
RECURSIVE Itoa(_)
Itoa(n) == IF n < 10 THEN <<Digits[n + 1]>> ELSE Itoa(n \div 10) \o <<Digits[(n % 10) + 1]>>

\* Python: s.split(c)
RECURSIVE Split(_, _)
Split(s, c) ==
  IF \A i \in 1..Len(s) : s[i] # c THEN <<s>>
  ELSE LET i == CHOOSE k \in 1..Len(s) : s[k] = c /\ \A j \in 1..(k - 1) : s[j] # c
       IN <<SubSeq(s, 1, i - 1)>> \o Split(SubSeq(s, i + 1, Len(s)), c)

\* Python: sep.join(parts)
RECURSIVE Join(_, _)
Join(parts, sep) ==
  IF parts = <<>> THEN <<>>
  ELSE IF Len(parts) = 1 THEN parts[1]
  ELSE parts[1] \o sep \o Join(Tail(parts), sep)

\* Python truthiness of an Optional[str]: None and "" are falsy
Truthy(s) == s # NoneStr /\ s # <<>>

\* Python: x or 0 for an Optional[int]
OrZero(x) == IF x = NoneInt THEN 0 ELSE x

\* Python: x or "" for an Optional[str]
OrEmpty(s) == IF Truthy(s) THEN s ELSE <<>>

----------------------------------------------------------------------------
(* Exceptions: a raised exception is the record [error |-> class name] *)

Raise(cls) == [error |-> cls]
IsError(r) == "error" \in DOMAIN r

\* r, a string or an exception, is an exception
Raised(r) == DOMAIN r = {"error"}

\* the subclasses of VersionSystemError
VersionSystemErrors ==
  {"VersionSystemError", "InvalidVersionError", "TagNotFoundError",
   "GitOperationError", "ValidationError", "ConfigurationError"}

----------------------------------------------------------------------------
(* models/version.py: VersionInfo *)

VersionInfo(major, minor, patch, prefix, suffix, module) ==
  [major |-> major, minor |-> minor, patch |-> patch,
   prefix |-> prefix, suffix |-> suffix, module |-> module]

\* VersionInfo.version_type
version_type(v) ==
  IF v.patch # NoneInt THEN "semver"
  ELSE IF v.minor # NoneInt THEN "major_minor"
  ELSE "major"

\* VersionInfo.base_version; an f-string renders an absent minor as the text None
FmtInt(x) == IF x = NoneInt THEN <<"N", "o", "n", "e">> ELSE Itoa(x)

base_version(v) ==
  IF version_type(v) = "semver"
    THEN FmtInt(v.major) \o <<".">> \o FmtInt(v.minor) \o <<".">> \o FmtInt(v.patch)
  ELSE IF version_type(v) = "major_minor"
    THEN FmtInt(v.major) \o <<".">> \o FmtInt(v.minor)
  ELSE FmtInt(v.major)

\* VersionInfo.full_version, which is also __str__
full_version(v) ==
  LET named == IF Truthy(v.module) THEN v.module \o <<"-">> \o base_version(v)
               ELSE IF Truthy(v.prefix) THEN v.prefix \o <<"-">> \o base_version(v)
               ELSE base_version(v)
  IN IF Truthy(v.suffix) THEN named \o <<"-">> \o v.suffix ELSE named

\* VersionInfo.increment: a new value, or ValueError
IncrementDroppingReset(v, increment_type) ==
  IF increment_type = "major" THEN
    [v EXCEPT !.major = v.major + 1,
              !.minor = IF v.minor # NoneInt THEN 0 ELSE NoneInt,
              !.patch = IF v.patch # NoneInt THEN 0 ELSE NoneInt]
  ELSE IF increment_type = "minor" THEN
    IF v.minor # NoneInt
      THEN [v EXCEPT !.minor = v.minor + 1]
      ELSE Raise("ValueError")
  ELSE
    IF v.patch # NoneInt
      THEN [v EXCEPT !.patch = v.patch + 1]
      ELSE Raise("ValueError")

increment(v, increment_type) ==
  IF increment_type = "major" THEN
    [v EXCEPT !.major = v.major + 1,
              !.minor = IF v.minor # NoneInt THEN 0 ELSE NoneInt,
              !.patch = IF v.patch # NoneInt THEN 0 ELSE NoneInt]
  ELSE IF increment_type = "minor" THEN
    IF v.minor # NoneInt
      THEN [v EXCEPT !.minor = v.minor + 1,
                     !.patch = IF v.patch # NoneInt THEN 0 ELSE NoneInt]
      ELSE Raise("ValueError")
  ELSE
    IF v.patch # NoneInt
      THEN [v EXCEPT !.patch = v.patch + 1]
      ELSE Raise("ValueError")

\* VersionInfo.__eq__
VersionEq(a, b) ==
  /\ a.major = b.major
  /\ a.minor = b.minor
  /\ a.patch = b.patch
  /\ a.prefix = b.prefix
  /\ a.suffix = b.suffix
  /\ a.module = b.module

\* the namespace identifier of __lt__: self.module or self.prefix or ""
Identifier(v) ==
  IF Truthy(v.module) THEN v.module
  ELSE IF Truthy(v.prefix) THEN v.prefix
  ELSE <<>>

\* VersionInfo.__lt__
VersionLtSuffixFirst(a, b) ==
  IF Identifier(a) # Identifier(b) THEN StrLess(Identifier(a), Identifier(b))
  ELSE IF a.major # b.major THEN a.major < b.major
  ELSE IF OrZero(a.minor) # OrZero(b.minor) THEN OrZero(a.minor) < OrZero(b.minor)
  ELSE IF OrZero(a.patch) # OrZero(b.patch) THEN OrZero(a.patch) < OrZero(b.patch)
  ELSE StrLess(OrEmpty(a.suffix), OrEmpty(b.suffix))

VersionLt(a, b) ==
  IF Identifier(a) # Identifier(b) THEN StrLess(Identifier(a), Identifier(b))
  ELSE IF a.major # b.major THEN a.major < b.major
  ELSE IF OrZero(a.minor) # OrZero(b.minor) THEN OrZero(a.minor) < OrZero(b.minor)
  ELSE IF OrZero(a.patch) # OrZero(b.patch) THEN OrZero(a.patch) < OrZero(b.patch)
  ELSE IF OrEmpty(a.suffix) # <<>> /\ OrEmpty(b.suffix) = <<>> THEN TRUE
  ELSE IF OrEmpty(a.suffix) = <<>> /\ OrEmpty(b.suffix) # <<>> THEN FALSE
  ELSE StrLess(OrEmpty(a.suffix), OrEmpty(b.suffix))

\* models/version.py: VersionConfig
VersionConfig(vtype, itype, default_prefix, default_suffix) ==
  [version_type |-> vtype, increment_type |-> itype,
   default_prefix |-> default_prefix, default_suffix |-> default_suffix]

DefaultConfig == VersionConfig("semver", "patch", NoneStr, NoneStr)

----------------------------------------------------------------------------
(* core/version_calculator.py: VersionCalculator *)

\* VersionCalculator._select_version_to_increment
SelectBaseOnTie(current_version, base) ==
  IF base.major > current_version.major THEN base
  ELSE IF base.major < current_version.major THEN current_version
  ELSE IF OrZero(base.minor) > OrZero(current_version.minor) THEN base
  ELSE IF OrZero(base.minor) < OrZero(current_version.minor) THEN current_version
  ELSE IF OrZero(base.patch) >= OrZero(current_version.patch) THEN base
  ELSE current_version

_select_version_to_increment(current_version, base) ==
  IF base.major > current_version.major THEN base
  ELSE IF base.major < current_version.major THEN current_version
  ELSE IF OrZero(base.minor) > OrZero(current_version.minor) THEN base
  ELSE IF OrZero(base.minor) < OrZero(current_version.minor) THEN current_version
  ELSE IF OrZero(base.patch) > OrZero(current_version.patch) THEN base
  ELSE current_version

\* VersionCalculator._normalize_version
NormalizeMajorKeepingPatch(config, version) ==
  LET withPrefix == IF Truthy(config.default_prefix) /\ ~Truthy(version.prefix)
                      THEN [version EXCEPT !.prefix = config.default_prefix]
                      ELSE version
      normalized == IF Truthy(config.default_suffix) /\ ~Truthy(withPrefix.suffix)
                      THEN [withPrefix EXCEPT !.suffix = config.default_suffix]
                      ELSE withPrefix
  IN IF config.version_type = "major" THEN
       [normalized EXCEPT !.minor = NoneInt]
     ELSE IF config.version_type = "major_minor" THEN
       [normalized EXCEPT !.patch = NoneInt,
                          !.minor = IF normalized.minor = NoneInt THEN 0 ELSE normalized.minor]
     ELSE
       [normalized EXCEPT !.minor = IF normalized.minor = NoneInt THEN 0 ELSE normalized.minor,
                          !.patch = IF normalized.patch = NoneInt THEN 0 ELSE normalized.patch]

_normalize_version(config, version) ==
  LET withPrefix == IF Truthy(config.default_prefix) /\ ~Truthy(version.prefix)
                      THEN [version EXCEPT !.prefix = config.default_prefix]
                      ELSE version
      normalized == IF Truthy(config.default_suffix) /\ ~Truthy(withPrefix.suffix)
                      THEN [withPrefix EXCEPT !.suffix = config.default_suffix]
                      ELSE withPrefix
  IN IF config.version_type = "major" THEN
       [normalized EXCEPT !.minor = NoneInt, !.patch = NoneInt]
     ELSE IF config.version_type = "major_minor" THEN
       [normalized EXCEPT !.patch = NoneInt,
                          !.minor = IF normalized.minor = NoneInt THEN 0 ELSE normalized.minor]
     ELSE
       [normalized EXCEPT !.minor = IF normalized.minor = NoneInt THEN 0 ELSE normalized.minor,
                          !.patch = IF normalized.patch = NoneInt THEN 0 ELSE normalized.patch]

\* the absent current version (current_version is None)
NoVersion == [none |-> TRUE]

\* the omitted increment_type argument (increment_type is None)
NoKind == "None"

\* VersionCalculator.calculate_next_version
CalcIncrementingBaseline(config, current_version, base, increment_type) ==
  LET kind == IF increment_type = NoKind THEN config.increment_type ELSE increment_type
      version_to_increment ==
        IF current_version = NoVersion THEN base
        ELSE _select_version_to_increment(current_version, base)
      next_version == increment(version_to_increment, kind)
  IN IF IsError(next_version) THEN Raise("InvalidVersionError")
     ELSE _normalize_version(config, next_version)

calculate_next_version(config, current_version, base, increment_type) ==
  LET kind == IF increment_type = NoKind THEN config.increment_type ELSE increment_type
  IN IF current_version = NoVersion THEN _normalize_version(config, base)
     ELSE LET version_to_increment == _select_version_to_increment(current_version, base)
              next_version == increment(version_to_increment, kind)
          IN IF IsError(next_version) THEN Raise("InvalidVersionError")
             ELSE _normalize_version(config, next_version)

\* VersionCalculator.is_version_compatible
is_version_compatible(version, base) ==
  IF version.major < base.major THEN FALSE
  ELSE IF version.major = base.major /\ OrZero(version.minor) < OrZero(base.minor) THEN FALSE
  ELSE IF /\ version.major = base.major
          /\ OrZero(version.minor) = OrZero(base.minor)
          /\ OrZero(version.patch) < OrZero(base.patch) THEN FALSE
  ELSE TRUE

\* Python: s[:n]
Take(s, n) == SubSeq(s, 1, IF Len(s) < n THEN Len(s) ELSE n)

\* Python: s.replace(a, b) for single characters a, b
ReplaceChar(s, a, b) == [i \in 1..Len(s) |-> IF s[i] = a THEN b ELSE s[i]]

SNAPSHOT == <<"S", "N", "A", "P", "S", "H", "O", "T">>

\* the branch-name prefix kept by clean_branch = branch_name.replace("/", "-")[:20]
BranchChars == 20

\* create_snapshot_version without the [:20] on the cleaned branch name
CreateSnapshotWithoutTruncation(base, branch_name) ==
  IF Truthy(branch_name)
    THEN [base EXCEPT !.suffix = ReplaceChar(branch_name, "/", "-") \o <<"-">> \o SNAPSHOT]
    ELSE [base EXCEPT !.suffix = SNAPSHOT]

\* VersionCalculator.create_snapshot_version
create_snapshot_version(base, branch_name) ==
  IF Truthy(branch_name)
    THEN [base EXCEPT !.suffix =
            Take(ReplaceChar(branch_name, "/", "-"), BranchChars) \o <<"-">> \o SNAPSHOT]
    ELSE [base EXCEPT !.suffix = SNAPSHOT]

----------------------------------------------------------------------------
(* core/version_parser.py: VersionParser *)

\* Python: sub in s
Contains(s, sub) ==
  \E i \in 1..(Len(s) - Len(sub) + 1) : SubSeq(s, i, i + Len(sub) - 1) = sub

\* \d+
IsDigits(s) == Len(s) > 0 /\ \A i \in 1..Len(s) : IsDigit(s[i])

\* [a-zA-Z][a-zA-Z0-9]*
IsIdent(s) == Len(s) > 0 /\ IsAlpha(s[1]) /\ \A i \in 1..Len(s) : IsAlnum(s[i])

\* [a-zA-Z0-9\-\._]
IsModuleChar(c) == IsAlnum(c) \/ c \in {"-", ".", "_"}

\* [a-zA-Z0-9][a-zA-Z0-9\-\._]*[a-zA-Z0-9]
IsModuleToken(s) ==
  /\ Len(s) >= 2
  /\ IsAlnum(s[1])
  /\ IsAlnum(s[Len(s)])
  /\ \A i \in 1..Len(s) : IsModuleChar(s[i])

\* (\d+)\.(\d+) ... with n numeric groups
IsNumeric(s, n) ==
  LET parts == Split(s, ".")
  IN Len(parts) = n /\ \A i \in 1..n : IsDigits(parts[i])

HyphenAt(s) == {i \in 1..Len(s) : s[i] = "-"}

Before(s, i) == SubSeq(s, 1, i - 1)
After(s, i) == SubSeq(s, i + 1, Len(s))

\* the length limit of validate_module_name
MaxModuleLen == 50

\* Python: re.compile('^...$').match(s) without re.MULTILINE: '$' matches at the end of
\* the string and also just before a newline that ends the string
WithoutFinalNewline(s) ==
  IF s # <<>> /\ s[Len(s)] = "\n" THEN SubSeq(s, 1, Len(s) - 1) ELSE s

\* VersionParser.validate_module_name: TRUE when it returns, FALSE when it raises ValidationError
ValidateModuleNameAllowingRepeats(module_name) ==
  /\ Truthy(module_name)
  /\ IF Len(module_name) = 1 THEN IsAlnum(module_name[1])
     ELSE IsModuleToken(module_name) \/ IsModuleToken(WithoutFinalNewline(module_name))
  /\ Len(module_name) <= MaxModuleLen

validate_module_name(module_name) ==
  /\ Truthy(module_name)
  /\ IF Len(module_name) = 1 THEN IsAlnum(module_name[1])
     ELSE IsModuleToken(module_name) \/ IsModuleToken(WithoutFinalNewline(module_name))
  /\ Len(module_name) <= MaxModuleLen
  /\ ~Contains(module_name, <<"-", "-">>)
  /\ ~Contains(module_name, <<"_", "_">>)
  /\ ~Contains(module_name, <<".", ".">>)

\* VersionParser._build_patterns: the pattern names in dict order
PatternNames ==
  <<"semver", "major_minor", "major",
    "prefix_semver", "prefix_major_minor", "prefix_major",
    "suffix_semver", "suffix_major_minor", "suffix_major",
    "module_semver", "module_major_minor", "module_major",
    "prefix_suffix_semver">>

\* the number of numeric groups of a pattern
NumericGroups(pattern_name) ==
  IF pattern_name \in {"semver", "prefix_semver", "suffix_semver", "module_semver",
                       "prefix_suffix_semver"} THEN 3
  ELSE IF pattern_name \in {"major_minor", "prefix_major_minor", "suffix_major_minor",
                            "module_major_minor"} THEN 2
  ELSE 1

\* pattern.match(s): the set of match.groups() tuples, empty when the pattern does not match
PatternMatch(pattern_name, s) ==
  LET n == NumericGroups(pattern_name)
  IN IF pattern_name \in {"semver", "major_minor", "major"} THEN
       IF IsNumeric(s, n) THEN {Split(s, ".")} ELSE {}
     ELSE IF pattern_name \in {"prefix_semver", "prefix_major_minor", "prefix_major"} THEN
       {<<Before(s, i)>> \o Split(After(s, i), ".") :
          i \in {k \in HyphenAt(s) : IsIdent(Before(s, k)) /\ IsNumeric(After(s, k), n)}}
     ELSE IF pattern_name \in {"suffix_semver", "suffix_major_minor", "suffix_major"} THEN
       {Split(Before(s, i), ".") \o <<After(s, i)>> :
          i \in {k \in HyphenAt(s) : IsNumeric(Before(s, k), n) /\ IsIdent(After(s, k))}}
     ELSE IF pattern_name \in {"module_semver", "module_major_minor", "module_major"} THEN
       {<<Before(s, i)>> \o Split(After(s, i), ".") :
          i \in {k \in HyphenAt(s) : IsModuleToken(Before(s, k)) /\ IsNumeric(After(s, k), n)}}
     ELSE
       {<<Before(s, ij[1])>> \o Split(SubSeq(s, ij[1] + 1, ij[2] - 1), ".") \o <<After(s, ij[2])>> :
          ij \in {p \in HyphenAt(s) \X HyphenAt(s) :
                    /\ p[1] < p[2]
                    /\ IsIdent(Before(s, p[1]))
                    /\ IsNumeric(SubSeq(s, p[1] + 1, p[2] - 1), n)
                    /\ IsIdent(After(s, p[2]))}}

\* VersionParser._parse_match
_parse_match(groups, pattern_name) ==
  IF pattern_name = "semver" THEN
    VersionInfo(Atoi(groups[1]), Atoi(groups[2]), Atoi(groups[3]), NoneStr, NoneStr, NoneStr)
  ELSE IF pattern_name = "major_minor" THEN
    VersionInfo(Atoi(groups[1]), Atoi(groups[2]), NoneInt, NoneStr, NoneStr, NoneStr)
  ELSE IF pattern_name = "major" THEN
    VersionInfo(Atoi(groups[1]), NoneInt, NoneInt, NoneStr, NoneStr, NoneStr)
  ELSE IF pattern_name = "prefix_semver" THEN
    VersionInfo(Atoi(groups[2]), Atoi(groups[3]), Atoi(groups[4]), groups[1], NoneStr, NoneStr)
  ELSE IF pattern_name = "prefix_major_minor" THEN
    VersionInfo(Atoi(groups[2]), Atoi(groups[3]), NoneInt, groups[1], NoneStr, NoneStr)
  ELSE IF pattern_name = "prefix_major" THEN
    VersionInfo(Atoi(groups[2]), NoneInt, NoneInt, groups[1], NoneStr, NoneStr)
  ELSE IF pattern_name = "suffix_semver" THEN
    VersionInfo(Atoi(groups[1]), Atoi(groups[2]), Atoi(groups[3]), NoneStr, groups[4], NoneStr)
  ELSE IF pattern_name = "suffix_major_minor" THEN
    VersionInfo(Atoi(groups[1]), Atoi(groups[2]), NoneInt, NoneStr, groups[3], NoneStr)
  ELSE IF pattern_name = "suffix_major" THEN
    VersionInfo(Atoi(groups[1]), NoneInt, NoneInt, NoneStr, groups[2], NoneStr)
  ELSE IF pattern_name = "module_semver" THEN
    IF validate_module_name(groups[1])
      THEN VersionInfo(Atoi(groups[2]), Atoi(groups[3]), Atoi(groups[4]), NoneStr, NoneStr, groups[1])
      ELSE Raise("ValidationError")
  ELSE IF pattern_name = "module_major_minor" THEN
    IF validate_module_name(groups[1])
      THEN VersionInfo(Atoi(groups[2]), Atoi(groups[3]), NoneInt, NoneStr, NoneStr, groups[1])
      ELSE Raise("ValidationError")
  ELSE IF pattern_name = "module_major" THEN
    IF validate_module_name(groups[1])
      THEN VersionInfo(Atoi(groups[2]), NoneInt, NoneInt, NoneStr, NoneStr, groups[1])
      ELSE Raise("ValidationError")
  ELSE
    VersionInfo(Atoi(groups[2]), Atoi(groups[3]), Atoi(groups[4]), groups[1], groups[5], NoneStr)

\* VersionParser.parse: a VersionInfo, or the exception raised
parse(version_string) ==
  IF ~Truthy(version_string) \/ Strip(version_string) = <<>> THEN Raise("InvalidVersionError")
  ELSE LET s == Strip(version_string)
           matching == {k \in 1..Len(PatternNames) : PatternMatch(PatternNames[k], s) # {}}
       IN IF matching = {} THEN Raise("InvalidVersionError")
          ELSE LET k == CHOOSE m \in matching : \A o \in matching : m <= o
               IN _parse_match(CHOOSE g \in PatternMatch(PatternNames[k], s) : TRUE,
                               PatternNames[k])

\* VersionParser.validate
validate(version_string) ==
  LET r == parse(version_string)
  IN IF ~IsError(r) THEN [value |-> TRUE]
     ELSE IF r.error = "InvalidVersionError" THEN [value |-> FALSE]
     ELSE r

\* VersionParser.normalize_version
normalize_version(config, version_info) ==
  LET normalized ==
        [version_info EXCEPT
           !.prefix = IF Truthy(version_info.prefix) THEN version_info.prefix
                      ELSE config.default_prefix,
           !.suffix = IF Truthy(version_info.suffix) THEN version_info.suffix
                      ELSE config.default_suffix]
  IN IF config.version_type = "major" THEN
       [normalized EXCEPT !.minor = NoneInt, !.patch = NoneInt]
     ELSE IF config.version_type = "major_minor" THEN
       [normalized EXCEPT !.patch = NoneInt,
                          !.minor = IF normalized.minor = NoneInt THEN 0 ELSE normalized.minor]
     ELSE
       [normalized EXCEPT !.minor = IF normalized.minor = NoneInt THEN 0 ELSE normalized.minor,
                          !.patch = IF normalized.patch = NoneInt THEN 0 ELSE normalized.patch]

----------------------------------------------------------------------------
(* models/tag.py: TagPattern and TagInfo *)

\* TagPattern.create_semver_pattern / create_major_minor_pattern / create_major_pattern:
\* n is the number of numeric components of version_regex
TagPattern(n, prefix, suffix, module) ==
  IF Truthy(module) THEN [kind |-> "module", ns |-> module, n |-> n]
  ELSE IF Truthy(prefix) THEN [kind |-> "prefix", ns |-> prefix, n |-> n]
  ELSE IF Truthy(suffix) THEN [kind |-> "suffix", ns |-> suffix, n |-> n]
  ELSE [kind |-> "plain", ns |-> <<>>, n |-> n]

\* TagPattern.matches: the namespace text is escaped, so it matches literally
PatternMatchesIgnoringStart(pattern, tag_name) ==
  IF pattern.kind \in {"module", "prefix"} THEN
    \E i \in HyphenAt(tag_name) :
      /\ i > Len(pattern.ns)
      /\ SubSeq(tag_name, i - Len(pattern.ns), i - 1) = pattern.ns
      /\ IsNumeric(After(tag_name, i), pattern.n)
  ELSE IF pattern.kind = "suffix" THEN
    \E i \in HyphenAt(tag_name) :
      /\ IsNumeric(Before(tag_name, i), pattern.n)
      /\ After(tag_name, i) = pattern.ns
  ELSE IsNumeric(tag_name, pattern.n)

matches(pattern, tag_name) ==
  IF pattern.kind \in {"module", "prefix"} THEN
    \E i \in HyphenAt(tag_name) :
      /\ Before(tag_name, i) = pattern.ns
      /\ IsNumeric(After(tag_name, i), pattern.n)
  ELSE IF pattern.kind = "suffix" THEN
    \E i \in HyphenAt(tag_name) :
      /\ IsNumeric(Before(tag_name, i), pattern.n)
      /\ After(tag_name, i) = pattern.ns
  ELSE IsNumeric(tag_name, pattern.n)

TagInfo(name, version_info) == [name |-> name, version_info |-> version_info]

----------------------------------------------------------------------------
(* core/tag_manager.py: TagManager *)

\* the absent tag cache (_tag_cache is None)
NoCache == <<NoneStr>>

\* the default cache time-to-live, in minutes
CacheTtlMinutes == 5

\* git tag -l --sort=refname: the tag names in byte order, one per line
RECURSIVE GitTagList(_)
GitTagList(tags) ==
  IF tags = {} THEN <<>>
  ELSE LET first == CHOOSE t \in tags : \A u \in tags \ {t} : StrLess(t, u)
       IN <<first>> \o GitTagList(tags \ {first})

\* [tag.strip() for tag in tags if tag.strip()]
RECURSIVE StripLines(_)
StripLines(lines) ==
  IF lines = <<>> THEN <<>>
  ELSE IF Strip(lines[1]) = <<>> THEN StripLines(Tail(lines))
  ELSE <<Strip(lines[1])>> \o StripLines(Tail(lines))

\* get_all_tags with a cache that expires once it is as old as the time-to-live
GetAllTagsExpiringAtTtl(cache, timestamp, ttl, clock, force_refresh, git) ==
  LET cache_expired == timestamp = NoneInt \/ clock - timestamp >= ttl
  IN IF cache = NoCache \/ force_refresh \/ cache_expired THEN
       IF git.ok
         THEN [cache |-> StripLines(git.lines), timestamp |-> clock,
               value |-> StripLines(git.lines), listed |-> TRUE]
         ELSE [cache |-> cache, timestamp |-> timestamp,
               error |-> "GitOperationError", listed |-> TRUE]
     ELSE [cache |-> cache, timestamp |-> timestamp, value |-> cache, listed |-> FALSE]

\* TagManager.get_all_tags: the new cache and timestamp with the list returned, or the
\* error raised; git is the outcome of the external command, [ok, lines]
get_all_tags(cache, timestamp, ttl, clock, force_refresh, git) ==
  LET cache_expired == timestamp = NoneInt \/ clock - timestamp > ttl
  IN IF cache = NoCache \/ force_refresh \/ cache_expired THEN
       IF git.ok
         THEN [cache |-> StripLines(git.lines), timestamp |-> clock,
               value |-> StripLines(git.lines), listed |-> TRUE]
         ELSE [cache |-> cache, timestamp |-> timestamp,
               error |-> "GitOperationError", listed |-> TRUE]
     ELSE [cache |-> cache, timestamp |-> timestamp, value |-> cache, listed |-> FALSE]

\* Python: sorted(tags, key=lambda t: t.version_info), a stable sort using <
RECURSIVE InsertByVersion(_, _)
InsertByVersion(sorted, tag) ==
  IF sorted = <<>> THEN <<tag>>
  ELSE IF VersionLt(tag.version_info, sorted[Len(sorted)].version_info)
    THEN InsertByVersion(SubSeq(sorted, 1, Len(sorted) - 1), tag) \o <<sorted[Len(sorted)]>>
  ELSE sorted \o <<tag>>

RECURSIVE SortByVersion(_)
SortByVersion(tags) ==
  IF tags = <<>> THEN <<>>
  ELSE InsertByVersion(SortByVersion(SubSeq(tags, 1, Len(tags) - 1)), tags[Len(tags)])

\* the body of the loop of get_tags_matching_pattern: the tag is kept when its name
\* matches the pattern and parses
KeepTag(pattern, tag_name, version_info) ==
  IF matches(pattern, tag_name) /\ ~IsError(version_info)
    THEN <<TagInfo(tag_name, version_info)>>
    ELSE <<>>

\* the loop of get_tags_matching_pattern: tags that match and parse, in list order
RECURSIVE MatchingTags(_, _)
MatchingTags(all_tags, pattern) ==
  IF all_tags = <<>> THEN <<>>
  ELSE KeepTag(pattern, all_tags[1], parse(all_tags[1])) \o MatchingTags(Tail(all_tags), pattern)

\* get_tags_matching_pattern returning the tags in the order of the tag list
GetTagsMatchingUnsorted(all_tags, pattern) == MatchingTags(all_tags, pattern)

\* TagManager.get_tags_matching_pattern on the list get_all_tags returned
get_tags_matching_pattern(all_tags, pattern) == SortByVersion(MatchingTags(all_tags, pattern))

\* no TagInfo (None)
NoTagInfo == [none |-> TRUE]

\* matching_tags[-1] if matching_tags else None
LastOrNone(matching_tags) ==
  IF matching_tags = <<>> THEN NoTagInfo ELSE matching_tags[Len(matching_tags)]

\* TagManager.get_latest_tag_for_pattern on the list get_all_tags returned
get_latest_tag_for_pattern(all_tags, pattern) ==
  LastOrNone(get_tags_matching_pattern(all_tags, pattern))

\* TagManager._determine_version_type; NoneStr is a file that cannot be read
_determine_version_type(file_content) ==
  IF file_content = NoneStr THEN "semver"
  ELSE LET content == Strip(file_content)
       IN IF Contains(content, <<".">>) THEN
            IF Len(Split(content, ".")) >= 3 THEN "semver" ELSE "major_minor"
          ELSE "major"

PatternFor(vtype, prefix, suffix, module) ==
  TagPattern(IF vtype = "semver" THEN 3 ELSE IF vtype = "major_minor" THEN 2 ELSE 1,
             prefix, suffix, module)

\* TagManager.get_tags_for_module / get_tags_with_prefix / get_tags_with_suffix /
\* get_plain_version_tags on the list get_all_tags returned: the tags, or the error raised
FoundOrTagNotFound(tags) ==
  IF tags = <<>> THEN Raise("TagNotFoundError") ELSE [value |-> tags]

get_tags_for_module(all_tags, module_name, file_content) ==
  IF ~validate_module_name(module_name) THEN Raise("ValidationError")
  ELSE FoundOrTagNotFound(
         get_tags_matching_pattern(
           all_tags, PatternFor(_determine_version_type(file_content),
                                NoneStr, NoneStr, module_name)))

get_tags_with_prefix(all_tags, prefix, file_content) ==
  [value |-> get_tags_matching_pattern(
               all_tags, PatternFor(_determine_version_type(file_content),
                                    prefix, NoneStr, NoneStr))]

get_tags_with_suffix(all_tags, suffix, file_content) ==
  [value |-> get_tags_matching_pattern(
               all_tags, PatternFor(_determine_version_type(file_content),
                                    NoneStr, suffix, NoneStr))]

get_plain_version_tags(all_tags, file_content) ==
  [value |-> get_tags_matching_pattern(
               all_tags, PatternFor(_determine_version_type(file_content),
                                    NoneStr, NoneStr, NoneStr))]

----------------------------------------------------------------------------
(* main.py: VersionSystem *)

LowerCase ==
  <<"a", "b", "c", "d", "e", "f", "g", "h", "i", "j", "k", "l", "m",
    "n", "o", "p", "q", "r", "s", "t", "u", "v", "w", "x", "y", "z">>

UpperCase ==
  <<"A", "B", "C", "D", "E", "F", "G", "H", "I", "J", "K", "L", "M",
    "N", "O", "P", "Q", "R", "S", "T", "U", "V", "W", "X", "Y", "Z">>

\* Python: s.upper()
Upper(s) ==
  [i \in 1..Len(s) |->
     IF \E k \in 1..26 : LowerCase[k] = s[i]
       THEN UpperCase[CHOOSE k \in 1..26 : LowerCase[k] = s[i]]
       ELSE s[i]]

\* Python: s.rstrip('-') and s.lstrip('-')
RECURSIVE RStripHyphen(_)
RStripHyphen(s) ==
  IF s # <<>> /\ s[Len(s)] = "-" THEN RStripHyphen(SubSeq(s, 1, Len(s) - 1)) ELSE s

RECURSIVE LStripHyphen(_)
LStripHyphen(s) == IF s # <<>> /\ s[1] = "-" THEN LStripHyphen(Tail(s)) ELSE s

Request(prefix, suffix, module, branch, is_snapshot) ==
  [prefix |-> prefix, suffix |-> suffix, module |-> module,
   branch |-> branch, is_snapshot |-> is_snapshot]

\* _validate_inputs without the count of the options that are given
ValidateInputsWithoutCount(prefix, suffix, module) ==
  IF Truthy(prefix) /\ Upper(prefix) = SNAPSHOT THEN "VersionSystemError"
  ELSE IF Truthy(suffix) /\ Upper(suffix) = SNAPSHOT THEN "VersionSystemError"
  ELSE IF Truthy(module) /\ ~validate_module_name(module) THEN "ValidationError"
  ELSE "ok"

\* VersionSystem._validate_inputs: the class of the error raised, or "ok"
_validate_inputs(prefix, suffix, module) ==
  IF Truthy(prefix) /\ Upper(prefix) = SNAPSHOT THEN "VersionSystemError"
  ELSE IF Truthy(suffix) /\ Upper(suffix) = SNAPSHOT THEN "VersionSystemError"
  ELSE IF Truthy(module) /\ ~validate_module_name(module) THEN "ValidationError"
  ELSE IF Cardinality({i \in 1..3 : <<prefix, suffix, module>>[i] # NoneStr}) > 1
    THEN "VersionSystemError"
  ELSE "ok"

\* VersionSystem._auto_adjust_config_for_version_type: the calculator's new configuration
_auto_adjust_config_for_version_type(config, version) ==
  IF version_type(version) = "major_minor" /\ config.increment_type = "patch"
    THEN [config EXCEPT !.increment_type = "minor"]
    ELSE config

\* VersionSystem._read_base_version: the baseline with the calculator's configuration,
\* or the error raised; NoneStr is a file that cannot be read
_read_base_version(file_content, config) ==
  IF file_content = NoneStr THEN Raise("VersionSystemError")
  ELSE LET content == Strip(file_content)
           base == parse(content)
       IN IF content = <<>> \/ IsError(base) THEN Raise("VersionSystemError")
          ELSE [base |-> base, config |-> _auto_adjust_config_for_version_type(config, base)]

\* Python: 'SNAPSHOT' not in tag.name
RECURSIVE WithoutSnapshot(_)
WithoutSnapshot(tags) ==
  IF tags = <<>> THEN <<>>
  ELSE IF Contains(tags[1].name, SNAPSHOT) THEN WithoutSnapshot(Tail(tags))
  ELSE <<tags[1]>> \o WithoutSnapshot(Tail(tags))

\* Python: max(tags, key=lambda t: t.version_info), the first greatest element
RECURSIVE MaxFrom(_, _)
MaxFrom(best, tags) ==
  IF tags = <<>> THEN best
  ELSE IF VersionLt(best.version_info, tags[1].version_info) THEN MaxFrom(tags[1], Tail(tags))
  ELSE MaxFrom(best, Tail(tags))

MaxByVersion(tags) == MaxFrom(tags[1], Tail(tags))

\* the outcome of _get_current_version with the tag cache the listing leaves behind
CurrentVersion(value, listing, swallowed) ==
  [value |-> value, cache |-> listing.cache, timestamp |-> listing.timestamp,
   listed |-> listing.listed, swallowed |-> swallowed]

\* _get_current_version, lines 199-209: the greatest of the tags found
LatestOf(listing, found) ==
  IF IsError(found) THEN CurrentVersion(NoVersion, listing, found.error)
  ELSE IF found.value = <<>> THEN CurrentVersion(NoVersion, listing, "none")
  ELSE CurrentVersion(MaxByVersion(found.value).version_info, listing, "none")

\* 'SNAPSHOT' not in tag.name, over the tags get_tags_with_suffix returned
SuffixTagsWithoutSnapshot(found) == [value |-> WithoutSnapshot(found.value)]

\* _get_current_version, lines 184-197, on the outcome of get_all_tags
TagsOfListing(prefix, suffix, module, file_content, listing) ==
  IF "error" \in DOMAIN listing THEN CurrentVersion(NoVersion, listing, listing.error)
  ELSE IF Truthy(module) THEN
    LatestOf(listing, get_tags_for_module(listing.value, module, file_content))
  ELSE IF Truthy(prefix) THEN
    LatestOf(listing, get_tags_with_prefix(listing.value, prefix, file_content))
  ELSE IF Truthy(suffix) THEN
    LatestOf(listing, SuffixTagsWithoutSnapshot(
                        get_tags_with_suffix(listing.value, suffix, file_content)))
  ELSE LatestOf(listing, get_plain_version_tags(listing.value, file_content))

\* VersionSystem._get_current_version: the current version (NoVersion for None) with the
\* tag cache the listing leaves behind; every exception is swallowed into None
_get_current_version(prefix, suffix, module, file_content, cache, timestamp, ttl, clock, git) ==
  IF Truthy(module) /\ ~validate_module_name(module)
    THEN [value |-> NoVersion, cache |-> cache, timestamp |-> timestamp,
          listed |-> FALSE, swallowed |-> "ValidationError"]
    ELSE TagsOfListing(prefix, suffix, module, file_content,
                       get_all_tags(cache, timestamp, ttl, clock, FALSE, git))

\* the qualifier process_version_request sets on the calculated version
ApplyQualifier(next_version, prefix, suffix, module) ==
  IF Truthy(prefix) THEN [next_version EXCEPT !.prefix = RStripHyphen(prefix)]
  ELSE IF Truthy(suffix) THEN [next_version EXCEPT !.suffix = LStripHyphen(suffix)]
  ELSE IF Truthy(module) THEN [next_version EXCEPT !.module = module]
  ELSE next_version

\* the calculator's configuration and the tag cache a run leaves behind
LeftBehind(read, cur) ==
  [config |-> read.config, cache |-> cur.cache, timestamp |-> cur.timestamp,
   listed |-> cur.listed, swallowed |-> cur.swallowed]

\* process_version_request, lines 101-109: the rendered version and the GITHUB_OUTPUT lines
Returned(read, cur, next_version, text) ==
  [value |-> text, next_version |-> next_version, base |-> read.base, current |-> cur.value,
   output |-> IF cur.value = NoVersion
                THEN <<<<"next_tag", text>>>>
                ELSE <<<<"next_tag", text>>, <<"current_tag", full_version(cur.value)>>>>]
    @@ LeftBehind(read, cur)

\* process_version_request, lines 95-99
SnapshotIfAsked(req, next_version) ==
  IF req.is_snapshot THEN create_snapshot_version(next_version, req.branch) ELSE next_version

\* process_version_request, lines 83-109, on what calculate_next_version returned
AfterCalculation(req, read, cur, calculated) ==
  IF IsError(calculated)
    THEN [error |-> calculated.error, output |-> <<>>] @@ LeftBehind(read, cur)
    ELSE Returned(read, cur,
                  SnapshotIfAsked(req, ApplyQualifier(calculated, req.prefix, req.suffix,
                                                      req.module)),
                  full_version(SnapshotIfAsked(req, ApplyQualifier(calculated, req.prefix,
                                                                   req.suffix, req.module))))

\* process_version_request, lines 78-109, on what _get_current_version returned
AfterCurrentVersion(req, read, cur) ==
  AfterCalculation(req, read, cur,
                   calculate_next_version(read.config, cur.value, read.base, NoKind))

\* a run that raises before the tags are read
RaisedEarly(cls, config, cache, timestamp) ==
  [error |-> cls, config |-> config, cache |-> cache, timestamp |-> timestamp,
   output |-> <<>>, listed |-> FALSE, swallowed |-> "none"]

\* process_version_request, lines 74-109, on what _read_base_version returned
AfterBaseVersion(req, read, file_content, config, cache, timestamp, ttl, clock, git) ==
  IF IsError(read) THEN RaisedEarly(read.error, config, cache, timestamp)
  ELSE AfterCurrentVersion(
         req, read,
         _get_current_version(req.prefix, req.suffix, req.module, file_content,
                              cache, timestamp, ttl, clock, git))

\* VersionSystem.process_version_request: what it returns or raises, the version it
\* rendered, the lines written to GITHUB_OUTPUT, and the state it leaves behind
process_version_request(req, file_content, config, cache, timestamp, ttl, clock, git) ==
  IF _validate_inputs(req.prefix, req.suffix, req.module) # "ok"
    THEN RaisedEarly(_validate_inputs(req.prefix, req.suffix, req.module),
                     config, cache, timestamp)
    ELSE AfterBaseVersion(req, _read_base_version(file_content, config), file_content,
                          config, cache, timestamp, ttl, clock, git)

----------------------------------------------------------------------------
(* State *)

VARIABLES
  call,              \* the operation applied to its arguments (value functions)
  ret,               \* what the operation returned or raised; Pending before it ran
  repo_tags,         \* the tags of the git repository
  version_file,      \* the content of the version file; NoneStr when it cannot be read
  config,            \* VersionSystem.version_calculator.config
  _tag_cache,        \* TagManager._tag_cache
  _cache_timestamp,  \* TagManager._cache_timestamp, in minutes
  _cache_ttl,        \* TagManager._cache_ttl, in minutes
  now,               \* datetime.now(), in minutes
  github_output,     \* the lines appended to the GITHUB_OUTPUT file
  request,           \* the arguments of process_version_request
  result             \* what the last process_version_request returned or raised

fnvars == <<call, ret>>
sysvars == <<repo_tags, version_file, config, _tag_cache, _cache_timestamp, _cache_ttl, now,
             github_output, request, result>>
vars == <<call, ret, repo_tags, version_file, config, _tag_cache, _cache_timestamp,
          _cache_ttl, now, github_output, request, result>>

Pending == [pending |-> TRUE]
Done == ret # Pending

NoRequest == [none |-> TRUE]

\* a VersionSystem that is constructed and not used
SystemIdle ==
  /\ repo_tags = {}
  /\ version_file = NoneStr
  /\ config = DefaultConfig
  /\ _tag_cache = NoCache
  /\ _cache_timestamp = NoneInt
  /\ _cache_ttl = CacheTtlMinutes
  /\ now = 0
  /\ github_output = <<>>
  /\ request = NoRequest
  /\ result = Pending

\* no value function is applied
FnIdle == call = [fn |-> "none"] /\ ret = Pending

----------------------------------------------------------------------------
(* Inputs of the value functions *)

Nums == 0..MaxNum
OptNums == Nums \cup {NoneInt}

\* (major, minor, patch) with patch set only when minor is set
NumericShapes ==
  {n \in Nums \X OptNums \X OptNums : n[3] # NoneInt => n[2] # NoneInt}

Str_dev == <<"d", "e", "v">>
Str_rc == <<"r", "c">>
Str_beta == <<"b", "e", "t", "a">>
Str_node == <<"n", "o", "d", "e">>
Str_my_cli == <<"m", "y", "-", "c", "l", "i">>

\* (prefix, suffix, module) of a current version
CurrentQualifiers ==
  {<<NoneStr, NoneStr, NoneStr>>, <<Str_dev, NoneStr, NoneStr>>,
   <<NoneStr, Str_rc, NoneStr>>, <<NoneStr, NoneStr, Str_my_cli>>}

\* (prefix, suffix, module) of a baseline
BaseQualifiers == {<<NoneStr, NoneStr, NoneStr>>, <<NoneStr, Str_rc, NoneStr>>}

MkVersion(n, q) == VersionInfo(n[1], n[2], n[3], q[1], q[2], q[3])

CurrentVersions == {MkVersion(n, q) : n \in NumericShapes, q \in CurrentQualifiers}
BaseVersions == {MkVersion(n, q) : n \in NumericShapes, q \in BaseQualifiers}

VersionTypes == {"major", "major_minor", "semver"}
IncrementTypes == {"major", "minor", "patch"}

\* (default_prefix, default_suffix) of a configuration
ConfigDefaults == {<<NoneStr, NoneStr>>, <<Str_dev, NoneStr>>, <<NoneStr, Str_beta>>}

Configs ==
  {VersionConfig(t, i, d[1], d[2]) : t \in VersionTypes, i \in {"patch", "minor"},
                                     d \in ConfigDefaults}

Str_feature_branch ==
  <<"f", "e", "a", "t", "u", "r", "e", "/", "P", "R", "O", "J", "-", "1", "2", "3", "4", "-",
    "t", "e", "s", "t", "-", "b", "r", "a", "n", "c", "h">>

\* no branch, an empty one, a short one, and branches of BranchChars characters and more
Branches ==
  {NoneStr, <<>>, <<"f", "/", "x">>, Str_feature_branch,
   SubSeq(Str_feature_branch, 1, BranchChars), SubSeq(Str_feature_branch, 1, BranchChars + 1)}

\* version strings handed to parse in the calculator specification
Num1(a) == Itoa(a)
Num2(a, b) == Itoa(a) \o <<".">> \o Itoa(b)
Num3(a, b, c) == Itoa(a) \o <<".">> \o Itoa(b) \o <<".">> \o Itoa(c)

\* tag names with a namespace before, or a suffix after, the numbers
Tagged(ns, numeric) == ns \o <<"-">> \o numeric
Suffixed(numeric, ns) == numeric \o <<"-">> \o ns

NumericStrings ==
  {Num1(a) : a \in Nums} \cup {Num2(a, b) : a \in Nums, b \in Nums}
    \cup {Num3(a, b, c) : a \in Nums, b \in Nums, c \in Nums}

CalcParseInputs ==
  NumericStrings
    \cup {Str_dev \o <<"-">> \o n : n \in NumericStrings}
    \cup {n \o <<"-">> \o Str_rc : n \in NumericStrings}
    \cup {Str_my_cli \o <<"-">> \o n : n \in NumericStrings}
    \cup {Str_dev \o <<"-">> \o n \o <<"-">> \o Str_rc : n \in NumericStrings}

----------------------------------------------------------------------------
(* The calculator specification: each value function applied to drawn inputs *)

InitCalc ==
  /\ SystemIdle
  /\ ret = Pending
  /\ \/ \E c \in Configs, cur \in CurrentVersions \cup {NoVersion}, b \in BaseVersions,
          k \in IncrementTypes \cup {NoKind} :
          /\ k # NoKind => c.increment_type = "patch"
          /\ call = [fn |-> "calculate_next_version", config |-> c, current |-> cur,
                     base |-> b, kind |-> k]
     \/ \E v \in CurrentVersions, k \in IncrementTypes :
          call = [fn |-> "increment", self |-> v, kind |-> k]
     \/ \E c \in Configs, v \in CurrentVersions :
          call = [fn |-> "_normalize_version", config |-> c, version |-> v]
     \/ \E c \in Configs, v \in CurrentVersions :
          call = [fn |-> "normalize_version", config |-> c, version |-> v]
     \/ \E v \in CurrentVersions, b \in Branches :
          call = [fn |-> "create_snapshot_version", base |-> v, branch |-> b]
     \/ \E s \in CalcParseInputs :
          call = [fn |-> "parse", version_string |-> s]


CalculateNextVersion ==
  /\ call.fn = "calculate_next_version" /\ ret = Pending
  /\ ret' = calculate_next_version(call.config, call.current, call.base, call.kind)
  /\ UNCHANGED <<call, sysvars>>

Increment ==
  /\ call.fn = "increment" /\ ret = Pending
  /\ ret' = increment(call.self, call.kind)
  /\ UNCHANGED <<call, sysvars>>

NormalizeCalculator ==
  /\ call.fn = "_normalize_version" /\ ret = Pending
  /\ ret' = _normalize_version(call.config, call.version)
  /\ UNCHANGED <<call, sysvars>>

NormalizeParser ==
  /\ call.fn = "normalize_version" /\ ret = Pending
  /\ ret' = normalize_version(call.config, call.version)
  /\ UNCHANGED <<call, sysvars>>

CreateSnapshotVersion ==
  /\ call.fn = "create_snapshot_version" /\ ret = Pending
  /\ ret' = create_snapshot_version(call.base, call.branch)
  /\ UNCHANGED <<call, sysvars>>

Parse ==
  /\ call.fn = "parse" /\ ret = Pending
  /\ ret' = parse(call.version_string)
  /\ UNCHANGED <<call, sysvars>>

NextCalc ==
  \/ CalculateNextVersion
  \/ Increment
  \/ NormalizeCalculator
  \/ NormalizeParser
  \/ CreateSnapshotVersion
  \/ Parse

SpecCalc == InitCalc /\ [][NextCalc]_vars

----------------------------------------------------------------------------
(* Claims about the calculator and the value model (SpecCalc) *)

\* (major, minor-or-0, patch-or-0)
NumTuple(v) == <<v.major, OrZero(v.minor), OrZero(v.patch)>>

\* strict lexicographic order on triples
TupleGreater(x, y) ==
  \/ x[1] > y[1]
  \/ x[1] = y[1] /\ x[2] > y[2]
  \/ x[1] = y[1] /\ x[2] = y[2] /\ x[3] > y[3]

CalcDone == call.fn = "calculate_next_version" /\ Done

RequestedKind == IF call.kind = NoKind THEN call.config.increment_type ELSE call.kind

\* C1: with a current version present, calculate_next_version returns
\* normalize(increment(S, kind)) where S is the baseline when the baseline's
\* (major, minor-or-0, patch-or-0) is strictly greater than the current's and the
\* current version otherwise (also on a tie); it fails exactly when the increment of
\* S fails, and under semver normalization the result is never normalize(S) itself.
C1_NextIsIncrementOfSelected ==
  (CalcDone /\ call.current # NoVersion) =>
    LET S == IF TupleGreater(NumTuple(call.base), NumTuple(call.current))
               THEN call.base ELSE call.current
        inc == increment(S, RequestedKind)
    IN IF IsError(inc) THEN ret = Raise("InvalidVersionError")
       ELSE /\ ret = _normalize_version(call.config, inc)
            /\ call.config.version_type = "semver" => ret # _normalize_version(call.config, S)

\* the baseline is ahead of the current version and its increment is returned
C1_Witness ==
  /\ CalcDone /\ call.current # NoVersion
  /\ TupleGreater(NumTuple(call.base), NumTuple(call.current))
  /\ ~IsError(ret)
  /\ NumTuple(ret) # NumTuple(call.base)

\* C2 as stated: with an absent current version the result is normalize(baseline), no
\* numeric component is incremented and every component the baseline carries keeps its value.
C2_BaselineKeptAsIs ==
  (CalcDone /\ call.current = NoVersion) =>
    /\ ret = _normalize_version(call.config, call.base)
    /\ ret.major = call.base.major
    /\ call.base.minor # NoneInt => ret.minor = call.base.minor
    /\ call.base.patch # NoneInt => ret.patch = call.base.patch

\* C2 amended: with an absent current version the result is normalize(baseline), no
\* numeric component is incremented, and every component the baseline carries keeps its
\* value when the configured version type has that slot (minor under major_minor and
\* semver, patch under semver); the slots the configured type lacks are dropped.
C2_BaselineNormalizedNotIncremented ==
  (CalcDone /\ call.current = NoVersion) =>
    /\ ret = _normalize_version(call.config, call.base)
    /\ ret.major = call.base.major
    /\ ret.minor \in {NoneInt, OrZero(call.base.minor)}
    /\ ret.patch \in {NoneInt, OrZero(call.base.patch)}
    /\ (call.base.minor # NoneInt /\ call.config.version_type # "major")
         => ret.minor = call.base.minor
    /\ (call.base.patch # NoneInt /\ call.config.version_type = "semver")
         => ret.patch = call.base.patch
    /\ call.config.version_type = "major" => ret.minor = NoneInt /\ ret.patch = NoneInt
    /\ call.config.version_type = "major_minor" => ret.patch = NoneInt

\* a semver baseline with non-zero components is returned with every component kept
C2_Witness ==
  /\ CalcDone /\ call.current = NoVersion
  /\ call.base.minor > 0 /\ call.base.patch > 0
  /\ call.kind = "major"
  /\ NumTuple(ret) = NumTuple(call.base)

IncrementDone == call.fn = "increment" /\ Done

\* C5: increment(kind) returns a new value: MAJOR adds 1 to major and zeroes every
\* present minor/patch; MINOR adds 1 to minor and zeroes a present patch, and fails when
\* minor is absent; PATCH adds 1 to patch and fails when patch is absent; on success the
\* present slots and prefix, suffix and module equal the receiver's.
C5_IncrementRules ==
  IncrementDone =>
    LET self == call.self
    IN /\ call.kind = "major" =>
            /\ ~IsError(ret)
            /\ ret.major = self.major + 1
            /\ self.minor # NoneInt => ret.minor = 0
            /\ self.patch # NoneInt => ret.patch = 0
       /\ call.kind = "minor" =>
            IF self.minor = NoneInt THEN ret = Raise("ValueError")
            ELSE /\ ~IsError(ret)
                 /\ ret.major = self.major
                 /\ ret.minor = self.minor + 1
                 /\ self.patch # NoneInt => ret.patch = 0
       /\ call.kind = "patch" =>
            IF self.patch = NoneInt THEN ret = Raise("ValueError")
            ELSE /\ ~IsError(ret)
                 /\ ret.major = self.major
                 /\ ret.minor = self.minor
                 /\ ret.patch = self.patch + 1
       /\ ~IsError(ret) =>
            /\ (ret.minor = NoneInt) = (self.minor = NoneInt)
            /\ (ret.patch = NoneInt) = (self.patch = NoneInt)
            /\ ret.prefix = self.prefix
            /\ ret.suffix = self.suffix
            /\ ret.module = self.module

\* a MINOR increment of a semver value with a non-zero patch
C5_Witness ==
  /\ IncrementDone /\ call.kind = "minor"
  /\ call.self.patch # NoneInt /\ call.self.patch > 0
  /\ ~IsError(ret) /\ ret.patch = 0

\* C10: every value produced by parse, increment, either normalization,
\* calculate_next_version and create_snapshot_version from inputs with
\* 'patch set implies minor set' has patch set only when minor is set.
C10_PatchImpliesMinor ==
  (Done /\ ~IsError(ret)) => (ret.patch # NoneInt => ret.minor # NoneInt)

\* the calculator's normalization to major-only applied to a semver value
C10_Witness ==
  /\ call.fn = "_normalize_version" /\ Done
  /\ call.config.version_type = "major"
  /\ call.version.patch # NoneInt
  /\ ret.patch = NoneInt /\ ret.minor = NoneInt

----------------------------------------------------------------------------
(* The ordering specification: __lt__ and __eq__ on drawn values *)

\* (prefix, suffix, module) of the values compared
OrderQualifiers ==
  {<<NoneStr, NoneStr, NoneStr>>, <<<<>>, NoneStr, NoneStr>>, <<Str_dev, NoneStr, NoneStr>>,
   <<NoneStr, NoneStr, Str_dev>>, <<Str_dev, NoneStr, Str_my_cli>>,
   <<NoneStr, Str_rc, NoneStr>>, <<NoneStr, Str_beta, NoneStr>>, <<NoneStr, <<>>, NoneStr>>,
   <<Str_dev, Str_rc, NoneStr>>}

OrderValues == {MkVersion(n, q) : n \in NumericShapes, q \in OrderQualifiers}

\* version strings of one namespace: plain and suffixed, or prefixed with dev
OrderEnds == {0, MaxNum}

OrderNumerics ==
  {Num1(a) : a \in OrderEnds} \cup {Num2(a, b) : a \in OrderEnds, b \in OrderEnds}
    \cup {Num3(a, b, c) : a \in OrderEnds, b \in OrderEnds, c \in OrderEnds}

OrderStrings(ns) ==
  IF ns = <<>>
    THEN OrderNumerics \cup {n \o <<"-">> \o Str_rc : n \in OrderNumerics}
    ELSE {ns \o <<"-">> \o n : n \in OrderNumerics}

InitOrder ==
  /\ SystemIdle
  /\ ret = Pending
  /\ \/ \E a \in OrderValues, b \in OrderValues :
          call = [fn |-> "compare_versions", version1 |-> a, version2 |-> b]
     \/ \E ns \in {<<>>, Str_dev, Str_my_cli} :
          \E sa \in OrderStrings(ns), sb \in OrderStrings(ns), sc \in OrderStrings(ns) :
            call = [fn |-> "compare_parsed", a |-> sa, b |-> sb, c |-> sc]

\* VersionCalculator.compare_versions, with the two comparisons it makes
compare_versions(version1, version2) ==
  IF VersionLt(version1, version2) THEN -1
  ELSE IF VersionEq(version1, version2) THEN 0
  ELSE 1

CompareVersions ==
  /\ call.fn = "compare_versions" /\ ret = Pending
  /\ ret' = [value |-> compare_versions(call.version1, call.version2),
             lt |-> VersionLt(call.version1, call.version2),
             eq |-> VersionEq(call.version1, call.version2)]
  /\ UNCHANGED <<call, sysvars>>

\* three strings parsed and compared pairwise with < and ==
CompareParsed ==
  /\ call.fn = "compare_parsed" /\ ret = Pending
  /\ LET a == parse(call.a)
         b == parse(call.b)
         c == parse(call.c)
     IN ret' = [a |-> a, b |-> b, c |-> c,
                lt_ab |-> VersionLt(a, b), lt_ba |-> VersionLt(b, a), eq_ab |-> VersionEq(a, b),
                lt_bc |-> VersionLt(b, c), lt_ac |-> VersionLt(a, c)]
  /\ UNCHANGED <<call, sysvars>>

NextOrder == CompareVersions \/ CompareParsed

SpecOrder == InitOrder /\ [][NextOrder]_vars

\* C6: on parsed values of one namespace exactly one of a<b, a==b, b<a holds, and < is
\* transitive, values of different granularity (1, 1.0, 1.0.0) included.
C6_StrictTotalOrder ==
  (call.fn = "compare_parsed" /\ Done) =>
    /\ \/ ret.lt_ab /\ ~ret.eq_ab /\ ~ret.lt_ba
       \/ ~ret.lt_ab /\ ret.eq_ab /\ ~ret.lt_ba
       \/ ~ret.lt_ab /\ ~ret.eq_ab /\ ret.lt_ba
    /\ (ret.lt_ab /\ ret.lt_bc) => ret.lt_ac

\* the sort key the claim describes, compared lexicographically
OrderKey(v) ==
  <<IF v.module # NoneStr /\ v.module # <<>> THEN v.module
    ELSE IF v.prefix # NoneStr /\ v.prefix # <<>> THEN v.prefix
    ELSE <<>>,
    v.major,
    IF v.minor = NoneInt THEN 0 ELSE v.minor,
    IF v.patch = NoneInt THEN 0 ELSE v.patch,
    IF v.suffix = NoneStr THEN <<>> ELSE v.suffix>>

\* a value without suffix is greater than one with any non-empty suffix
SuffixBelow(x, y) ==
  \/ x # <<>> /\ y = <<>>
  \/ x # <<>> /\ y # <<>> /\ StrLess(x, y)

KeyBelow(i, x, y) ==
  IF i = 1 THEN StrLess(x, y)
  ELSE IF i = 5 THEN SuffixBelow(x, y)
  ELSE x < y

LexBelow(k1, k2) ==
  \E i \in 1..5 : /\ \A j \in 1..(i - 1) : k1[j] = k2[j]
                  /\ k1[i] # k2[i]
                  /\ KeyBelow(i, k1[i], k2[i])

\* C7: __lt__ is the lexicographic comparison of (module else prefix else "", major,
\* minor or 0, patch or 0, suffix) where no suffix is greater than any non-empty suffix
\* and two non-empty suffixes compare as strings.
C7_LtIsLexicographic ==
  (call.fn = "compare_versions" /\ Done) =>
    /\ ret.lt = LexBelow(OrderKey(call.version1), OrderKey(call.version2))
    /\ (ret.value = -1) = ret.lt

\* X-suffix is below X for identical namespace and numeric components
C7_Witness ==
  /\ call.fn = "compare_versions" /\ Done
  /\ call.version1.suffix = Str_rc /\ call.version2.suffix = NoneStr
  /\ call.version1.prefix = call.version2.prefix
  /\ call.version1.module = call.version2.module
  /\ NumTuple(call.version1) = NumTuple(call.version2)
  /\ ret.lt

----------------------------------------------------------------------------
(* The parser specification: parse and render on drawn strings *)

\* greatest length of the strings drawn exhaustively
MaxStrLen == 4

ParseAlphabet == {"a", "0", "1", "-", ".", " "}

RECURSIVE StringsOfLen(_)
StringsOfLen(n) ==
  IF n = 0 THEN {<<>>}
  ELSE {<<c>> \o t : c \in ParseAlphabet, t \in StringsOfLen(n - 1)}

ShortStrings == UNION {StringsOfLen(n) : n \in 0..MaxStrLen}

\* longer strings: a namespace part, a numeric part and a trailing part
Str_a__b == <<"a", "-", "-", "b">>
Str_x_y == <<"x", "_", "y", ".", "z">>

ParseHeads ==
  {<<>>, Str_dev \o <<"-">>, Str_my_cli \o <<"-">>, Str_a__b \o <<"-">>,
   Str_x_y \o <<"-">>, <<"1", "-">>, <<"@", "-">>}

ParseTails == {<<>>, <<"-">> \o Str_rc, <<"-">> \o SNAPSHOT, <<"-", "1">>, <<" ">>}

ParseNumerics == NumericStrings \cup {<<"0", "1", ".", "0", ".", "0">>, <<"1", ".", "0", "0">>,
                                      <<"1", ".", ".", "0">>, <<"1", "0", ".", "1">>}

LongStrings == {h \o n \o t : h \in ParseHeads, n \in ParseNumerics, t \in ParseTails}

ParseInputs == ShortStrings \cup LongStrings \cup {NoneStr}

InitParse ==
  /\ SystemIdle
  /\ ret = Pending
  /\ \E s \in ParseInputs, fn \in {"parse_render", "validate"} :
       call = [fn |-> fn, version_string |-> s]

\* str(parser.parse(version_string))
ParseRender ==
  /\ call.fn = "parse_render" /\ ret = Pending
  /\ LET v == parse(call.version_string)
     IN ret' = IF IsError(v) THEN v ELSE [version |-> v, text |-> full_version(v)]
  /\ UNCHANGED <<call, sysvars>>

\* parser.validate(version_string)
Validate ==
  /\ call.fn = "validate" /\ ret = Pending
  /\ ret' = validate(call.version_string)
  /\ UNCHANGED <<call, sysvars>>

NextParse == ParseRender \/ Validate

SpecParse == InitParse /\ [][NextParse]_vars

\* C8: for every string parse accepts, str(parse(s)) is s with the surrounding
\* whitespace trimmed.
C8_ParseRenderRoundTrip ==
  (call.fn = "parse_render" /\ Done /\ ~IsError(ret)) =>
    ret.text = Strip(call.version_string)

----------------------------------------------------------------------------
(* get_version.py: the legacy entry point *)

\* (0|[1-9]\d*)
IsCanonicalNumber(s) == IsDigits(s) /\ (Len(s) > 1 => s[1] # "0")

\* semverRegex, minorVersionRegex, majorVersionRegex
IsCanonical(s, n) ==
  LET parts == Split(s, ".")
  IN Len(parts) = n /\ \A i \in 1..n : IsCanonicalNumber(parts[i])

\* Python: int(text) + k rendered with str(), or ValueError
IntPlus(text, k) == IF IsDigits(text) THEN Itoa(Atoi(text) + k) ELSE Raise("ValueError")

\* the semver branch of increase_version
IncreaseSemverAlwaysPatch(version, base) ==
  IF Len(version) < 2 THEN Raise("IndexError")
  ELSE IF ~IsDigits(version[1]) THEN Raise("ValueError")
  ELSE IF Len(version) < 3 THEN Join(<<version[1], version[2], base[3]>>, <<".">>)
  ELSE IF ~IsDigits(version[3]) THEN Raise("ValueError")
  ELSE Join(<<version[1], version[2], IntPlus(version[3], 1)>>, <<".">>)

IncreaseSemver(version, base) ==
  IF Len(version) < 2 THEN Raise("IndexError")
  ELSE IF ~IsDigits(version[1]) THEN Raise("ValueError")
  ELSE IF Atoi(base[1]) > Atoi(version[1]) THEN
    Join(<<Itoa(Atoi(base[1])), base[2], base[3]>>, <<".">>)
  ELSE IF Atoi(base[1]) = Atoi(version[1]) THEN
    IF Len(version) < 3 THEN Join(<<version[1], version[2], base[3]>>, <<".">>)
    ELSE IF ~IsDigits(version[3]) THEN Raise("ValueError")
    ELSE Join(<<version[1], version[2], IntPlus(version[3], 1)>>, <<".">>)
  ELSE Join(<<IntPlus(version[1], 1), <<"0">>, <<"0">>>>, <<".">>)

\* the major.minor branch of increase_version
IncreaseMajorMinor(version, base) ==
  IF Len(version) < 2 THEN Raise("IndexError")
  ELSE IF ~IsDigits(version[1]) THEN Raise("ValueError")
  ELSE IF Atoi(base[1]) > Atoi(version[1]) THEN
    Join(<<Itoa(Atoi(base[1])), base[2]>>, <<".">>)
  ELSE IF Atoi(base[1]) = Atoi(version[1]) THEN
    IF ~IsDigits(version[2]) THEN Raise("ValueError")
    ELSE Join(<<version[1], IntPlus(version[2], 1)>>, <<".">>)
  ELSE Join(<<version[1], version[2]>>, <<".">>)

\* the major branch of increase_version
IncreaseMajor(version, base) ==
  IF ~IsDigits(version[1]) THEN Raise("ValueError")
  ELSE IF Atoi(base[1]) > Atoi(version[1]) THEN Itoa(Atoi(base[1]))
  ELSE IF Atoi(base[1]) = Atoi(version[1]) THEN IntPlus(version[1], 1)
  ELSE version[1]

\* increase_version(version, version_file): the next tag text, or the exception raised;
\* file_content is what open(version_file).read() returns
increase_version(version, file_content) ==
  LET base_text == Strip(file_content)
  IN IF IsCanonical(base_text, 3)
       THEN IncreaseSemver(Split(version, "."), Split(base_text, "."))
     ELSE IF IsCanonical(base_text, 2)
       THEN IncreaseMajorMinor(Split(version, "."), Split(base_text, "."))
     ELSE IF IsCanonical(base_text, 1)
       THEN IncreaseMajor(Split(version, "."), Split(base_text, "."))
     ELSE <<>>

\* get_version.append_prefix_suffix_tag
append_prefix_suffix_tag(version, prefix, suffix) ==
  IF Truthy(prefix) THEN Join(<<prefix, version>>, <<"-">>)
  ELSE IF Truthy(suffix) THEN Join(<<version, suffix>>, <<"-">>)
  ELSE version

\* the literal of append_snapshot_version when there is no current tag
Str_0_0_1 == <<"0", ".", "0", ".", "1">>

\* append_snapshot_version decorating a snapshot with the prefix only
AppendSnapshotDroppingSuffix(next_tag, prefix, suffix, current_tag, is_snapshot, branch) ==
  IF is_snapshot THEN
    Join(<<append_prefix_suffix_tag(IF Truthy(current_tag) THEN next_tag ELSE Str_0_0_1,
                                    prefix, NoneStr)>>
           \o (IF Truthy(branch)
                 THEN <<Take(ReplaceChar(branch, "/", "-"), BranchChars)>> ELSE <<>>)
           \o <<SNAPSHOT>>,
         <<"-">>)
  ELSE append_prefix_suffix_tag(next_tag, prefix, suffix)

\* get_version.append_snapshot_version
append_snapshot_version(next_tag, prefix, suffix, current_tag, is_snapshot, branch) ==
  IF is_snapshot THEN
    Join(<<append_prefix_suffix_tag(IF Truthy(current_tag) THEN next_tag ELSE Str_0_0_1,
                                    prefix, suffix)>>
           \o (IF Truthy(branch)
                 THEN <<Take(ReplaceChar(branch, "/", "-"), BranchChars)>> ELSE <<>>)
           \o <<SNAPSHOT>>,
         <<"-">>)
  ELSE append_prefix_suffix_tag(next_tag, prefix, suffix)

----------------------------------------------------------------------------
(* The legacy specification: the functions of get_version.py on drawn inputs *)

\* the arguments of append_snapshot_version
\* get_version.validate_module_name: TRUE when it returns, FALSE when it raises ValueError
ValidateModuleNameLegacy(module) ==
  /\ Truthy(module)
  /\ IsModuleToken(module) \/ IsModuleToken(WithoutFinalNewline(module))

\* the check of the version file in get_latest_tag_with_module: TRUE when the content
\* passes, FALSE when ValueError is raised; NoneStr is a file that is not found
VersionFileAccepted(file_content) ==
  /\ file_content # NoneStr
  /\ Strip(file_content) # <<>>
  /\ \E n \in 1..3 : IsCanonical(Strip(file_content), n)

\* Python: s.replace(old, "", 1)
RemoveFirst(s, old) ==
  LET at == {i \in 1..(Len(s) - Len(old) + 1) : SubSeq(s, i, i + Len(old) - 1) = old}
  IN IF at = {} THEN s
     ELSE LET i == CHOOSE k \in at : \A j \in at : k <= j
          IN SubSeq(s, 1, i - 1) \o SubSeq(s, i + Len(old), Len(s))

\* the part of get_latest_tag_with_module after get_tags returned a tag list that is
\* not empty: the value or error, and the lines written by set_output
NextOfLatestModuleTag(module, file_content, current_tag, version_part) ==
  IF version_part = current_tag \/ ~(IsNumeric(version_part, 3) \/ IsNumeric(version_part, 2))
    THEN [error |-> "ValueError", output |-> <<<<"current_tag", current_tag>>>>]
    ELSE [value |-> module \o <<"-">> \o increase_version(version_part, file_content),
          output |-> <<<<"current_tag", current_tag>>,
                       <<"next_tag",
                         module \o <<"-">> \o increase_version(version_part, file_content)>>>>]

\* get_version.get_latest_tag_with_module; tags is the list get_tags returns
get_latest_tag_with_module(module, file_content, tags) ==
  IF ~ValidateModuleNameLegacy(module) \/ ~VersionFileAccepted(file_content)
    THEN [error |-> "ValueError", output |-> <<>>]
  ELSE IF tags = <<>>
    THEN [value |-> module \o <<"-">> \o Strip(file_content),
          output |-> <<<<"next_tag", module \o <<"-">> \o Strip(file_content)>>>>]
  ELSE NextOfLatestModuleTag(module, file_content, tags[Len(tags)],
                             RemoveFirst(tags[Len(tags)], module \o <<"-">>))

\* Python: [int(n) for n in re.findall(r"\d+", x)]
RECURSIVE DigitRuns(_)
DigitRuns(x) ==
  IF x = <<>> THEN <<>>
  ELSE IF ~IsDigit(x[1]) THEN DigitRuns(Tail(x))
  ELSE LET stop == IF \A i \in 1..Len(x) : IsDigit(x[i]) THEN Len(x) + 1
                   ELSE CHOOSE k \in 1..Len(x) :
                          ~IsDigit(x[k]) /\ \A j \in 1..(k - 1) : IsDigit(x[j])
       IN <<Atoi(SubSeq(x, 1, stop - 1))>> \o DigitRuns(SubSeq(x, stop, Len(x)))

\* Python: a < b on lists of int
RECURSIVE IntListLess(_, _)
IntListLess(a, b) ==
  IF b = <<>> THEN FALSE
  ELSE IF a = <<>> THEN TRUE
  ELSE IF a[1] # b[1] THEN a[1] < b[1]
  ELSE IntListLess(Tail(a), Tail(b))

\* Python: sorted(tags, key=lambda x: [int(n) for n in re.findall(r"\d+", x)]), stable
RECURSIVE InsertByDigits(_, _)
InsertByDigits(sorted, tag) ==
  IF sorted = <<>> THEN <<tag>>
  ELSE IF IntListLess(DigitRuns(tag), DigitRuns(sorted[Len(sorted)]))
    THEN InsertByDigits(SubSeq(sorted, 1, Len(sorted) - 1), tag) \o <<sorted[Len(sorted)]>>
  ELSE sorted \o <<tag>>

RECURSIVE SortByDigits(_)
SortByDigits(tags) ==
  IF tags = <<>> THEN <<>>
  ELSE InsertByDigits(SortByDigits(SubSeq(tags, 1, Len(tags) - 1)), tags[Len(tags)])

\* the version_pattern get_tags derives from the version file: the number of numeric
\* groups, or 0 for (\d+(\.\d+)*)
VersionPatternOf(version) ==
  IF IsCanonical(version, 1) THEN 1
  ELSE IF IsCanonical(version, 2) THEN 2
  ELSE IF IsCanonical(version, 3) THEN 3
  ELSE 0

\* s matches the version pattern from its first to its last character
MatchesVersionPattern(s, groups) ==
  IF groups = 0 THEN \A i \in 1..Len(Split(s, ".")) : IsDigits(Split(s, ".")[i])
  ELSE IsNumeric(s, groups)

\* the positions of s from which the rest of s matches the version pattern
VersionTails(s, groups) ==
  {i \in 1..Len(s) : MatchesVersionPattern(SubSeq(s, i, Len(s)), groups)}

\* filter_tag of get_tags for a call without module
filter_tag(tag, pattern, is_prefix, groups) ==
  IF Truthy(pattern) THEN
    IF is_prefix THEN
      /\ Len(tag) >= Len(pattern) /\ SubSeq(tag, 1, Len(pattern)) = pattern
      /\ \E i \in VersionTails(tag, groups) :
           i > Len(pattern) /\ SubSeq(tag, i - Len(pattern), i - 1) = pattern
    ELSE
      /\ Len(tag) > Len(pattern)
      /\ SubSeq(tag, Len(tag) - Len(pattern), Len(tag)) = <<"-">> \o pattern
      /\ VersionTails(SubSeq(tag, 1, Len(tag) - Len(pattern) - 1), groups) # {}
  ELSE MatchesVersionPattern(tag, groups)

RECURSIVE FilterTags(_, _, _, _)
FilterTags(all_tags, pattern, is_prefix, groups) ==
  IF all_tags = <<>> THEN <<>>
  ELSE (IF filter_tag(all_tags[1], pattern, is_prefix, groups) THEN <<all_tags[1]>> ELSE <<>>)
         \o FilterTags(Tail(all_tags), pattern, is_prefix, groups)

\* get_version.get_tags for a call without module; all_tags is
\* output.stdout.strip().split("\n") and file_content what the version file holds
get_tags(all_tags, file_content, pattern, is_prefix) ==
  SortByDigits(FilterTags(all_tags, pattern, is_prefix, VersionPatternOf(Strip(file_content))))

\* output.stdout.strip().split("\n") for a repository holding tags
LegacyTagList(tags) == IF tags = {} THEN <<<<>>>> ELSE GitTagList(tags)

\* get_latest_tag after get_tags returned tags: the value and the lines of set_output
LatestOrBase(file_content, tags) ==
  IF tags = <<>>
    THEN [value |-> Strip(file_content), output |-> <<<<"next_tag", Strip(file_content)>>>>]
    ELSE [value |-> increase_version(tags[Len(tags)], file_content),
          output |-> <<<<"current_tag", tags[Len(tags)]>>,
                       <<"next_tag", increase_version(tags[Len(tags)], file_content)>>>>]

\* get_version.get_latest_tag; NoneStr is a version file that does not exist
get_latest_tag(file_content, all_tags) ==
  IF file_content = NoneStr THEN [error |-> "FileNotFoundError", output |-> <<>>]
  ELSE LatestOrBase(file_content, get_tags(all_tags, file_content, NoneStr, TRUE))

\* Python: a < b, a == b or a > b on two elements of the key
\* [int(i) if i.isdigit() else i for i in x.split('.')], or the TypeError of int < str
KeyPartCompare(a, b) ==
  IF IsDigits(a) /\ IsDigits(b) THEN
    IF Atoi(a) < Atoi(b) THEN "lt" ELSE IF Atoi(a) = Atoi(b) THEN "eq" ELSE "gt"
  ELSE IF ~IsDigits(a) /\ ~IsDigits(b) THEN
    IF a = b THEN "eq" ELSE IF StrLess(a, b) THEN "lt" ELSE "gt"
  ELSE "TypeError"

\* Python: the comparison of two such keys (lists)
RECURSIVE KeyCompare(_, _)
KeyCompare(a, b) ==
  IF a = <<>> /\ b = <<>> THEN "eq"
  ELSE IF a = <<>> THEN "lt"
  ELSE IF b = <<>> THEN "gt"
  ELSE IF KeyPartCompare(a[1], b[1]) = "eq" THEN KeyCompare(Tail(a), Tail(b))
  ELSE KeyPartCompare(a[1], b[1])

AppendTo(r, x) == IF IsError(r) THEN r ELSE [value |-> r.value \o <<x>>]

RECURSIVE InsertByParts(_, _)
InsertByParts(sorted, v) ==
  IF sorted = <<>> THEN [value |-> <<v>>]
  ELSE IF KeyCompare(Split(v, "."), Split(sorted[Len(sorted)], ".")) = "TypeError"
    THEN Raise("TypeError")
  ELSE IF KeyCompare(Split(v, "."), Split(sorted[Len(sorted)], ".")) = "lt"
    THEN AppendTo(InsertByParts(SubSeq(sorted, 1, Len(sorted) - 1), v), sorted[Len(sorted)])
  ELSE [value |-> sorted \o <<v>>]

InsertInto(r, v) == IF IsError(r) THEN r ELSE InsertByParts(r.value, v)

\* Python: sorted(tags_version_only, key=...), stable; the list, or TypeError
RECURSIVE SortByParts(_)
SortByParts(versions) ==
  IF versions = <<>> THEN [value |-> <<>>]
  ELSE InsertInto(SortByParts(SubSeq(versions, 1, Len(versions) - 1)), versions[Len(versions)])

\* tag.split("-")[0] of the tags that end with -suffix and do not contain SNAPSHOT
RECURSIVE SuffixVersions(_, _)
SuffixVersions(tags, suffix) ==
  IF tags = <<>> THEN <<>>
  ELSE (IF /\ Len(tags[1]) > Len(suffix)
           /\ SubSeq(tags[1], Len(tags[1]) - Len(suffix), Len(tags[1])) = <<"-">> \o suffix
           /\ ~Contains(tags[1], SNAPSHOT)
          THEN <<Split(tags[1], "-")[1]>> ELSE <<>>)
         \o SuffixVersions(Tail(tags), suffix)

\* get_latest_tag_with_suffix from set_output("current_tag", ...) on; latest_tag is
\* what increase_version returned or raised
NextOfSuffixTag(suffix, current_tag, latest_tag, is_snapshot, branch) ==
  IF Raised(latest_tag)
    THEN [error |-> latest_tag.error, output |-> <<<<"current_tag", current_tag>>>>]
    ELSE [value |-> append_snapshot_version(latest_tag, NoneStr, suffix, current_tag,
                                            is_snapshot, branch),
          output |-> <<<<"current_tag", current_tag>>,
                       <<"next_tag",
                         append_snapshot_version(latest_tag, NoneStr, suffix, current_tag,
                                                 is_snapshot, branch)>>>>]

\* get_latest_tag_with_suffix after the sort of the versions of the suffix tags
LatestOfSuffixTags(suffix, file_content, sorted_tags, is_snapshot, branch) ==
  IF IsError(sorted_tags) THEN [error |-> sorted_tags.error, output |-> <<>>]
  ELSE IF sorted_tags.value = <<>> THEN [error |-> "IndexError", output |-> <<>>]
  ELSE NextOfSuffixTag(
         suffix, sorted_tags.value[Len(sorted_tags.value)] \o <<"-">> \o suffix,
         increase_version(sorted_tags.value[Len(sorted_tags.value)], file_content),
         is_snapshot, branch)

\* get_latest_tag_with_suffix after get_tags returned tags
SuffixTagOrBase(suffix, file_content, tags, is_snapshot, branch) ==
  IF tags = <<>>
    THEN [value |-> append_snapshot_version(Strip(file_content), NoneStr, suffix, NoneStr,
                                            is_snapshot, branch),
          output |-> <<<<"next_tag",
                         append_snapshot_version(Strip(file_content), NoneStr, suffix, NoneStr,
                                                 is_snapshot, branch)>>>>]
    ELSE LatestOfSuffixTags(suffix, file_content, SortByParts(SuffixVersions(tags, suffix)),
                            is_snapshot, branch)

\* get_version.get_latest_tag_with_suffix; NoneStr is a version file that does not exist
get_latest_tag_with_suffix(suffix, file_content, all_tags, is_snapshot, branch) ==
  IF Contains(suffix, <<"-">>) THEN [error |-> "Exception", output |-> <<>>]
  ELSE IF file_content = NoneStr THEN [error |-> "FileNotFoundError", output |-> <<>>]
  ELSE SuffixTagOrBase(suffix, file_content, get_tags(all_tags, file_content, suffix, FALSE),
                       is_snapshot, branch)

\* most tags of a legacy repository
MaxLegacyTags == 2

\* the repositories, suffixes and version files of get_latest_tag_with_suffix
LegacySuffixTags ==
  { Suffixed(Num2(3, 3), Str_dev), Suffixed(Num2(3, 10), Str_dev),
    Suffixed(Num2(3, 40), Str_dev), Suffixed(Num2(4, 0), Str_dev),
    Suffixed(Num3(1, 0, 1), Str_dev), Suffixed(Num2(3, 50), Str_rc),
    Suffixed(Num2(3, 41), Str_dev) \o <<"-">> \o SNAPSHOT,
    Tagged(SNAPSHOT, Suffixed(Num2(3, 60), Str_dev)),
    Tagged(Str_node, Suffixed(Num2(3, 70), Str_dev)) }

LegacySuffixRepos == {tags \in SUBSET LegacySuffixTags : Cardinality(tags) <= MaxLegacyTags}

LegacySuffixNames == {Str_dev, <<"a", "-", "b">>}

LegacySuffixFiles == {Num2(3, 0), Num2(4, 0), Num3(1, 0, 0), NoneStr}

\* the repositories and version files of the legacy entry points
LegacyRepoTags ==
  { Num3(1, 0, 0), Num3(1, 0, 1), Num3(1, 1, 0), Num3(0, 1, 1), Num3(1, 0, 10), Num2(1, 0),
    Num2(3, 3), Num2(3, 10), Num1(1), Tagged(Str_dev, Num3(1, 0, 0)) }

LegacyRepos == {tags \in SUBSET LegacyRepoTags : Cardinality(tags) <= MaxLegacyTags}

LegacyRepoFiles == {Num3(1, 0, 1), Num3(1, 1, 0), Num3(0, 0, 1), Num2(1, 1), Num1(1), <<"x">>, NoneStr}

\* the module names, version files and get_tags results of get_latest_tag_with_module
LegacyModules == {Str_node, <<"n">>, NoneStr}

LegacyModuleFiles ==
  { Num3(1, 0, 1), Num2(1, 1), Num1(1), <<>>, <<" ", "\n">>, <<"1", ".", "0", ".", "1", "\n">>,
    Num3(1, 0, 0) \o <<"-">> \o Str_rc, Str_dev \o <<"-">> \o Num3(1, 0, 0),
    <<"i", "n", "v", "a", "l", "i", "d", " ", "v", "e", "r", "s", "i", "o", "n">>, NoneStr }

LegacyModuleTags ==
  { <<>>, <<Str_node \o <<"-">> \o Num3(1, 0, 0)>>,
    <<Str_node \o <<"-">> \o Num3(1, 0, 0), Str_node \o <<"-">> \o Num3(1, 0, 1)>>,
    <<Str_node \o <<"-">> \o Num2(1, 0)>>, <<Str_node \o <<"-">> \o Num1(1)>>,
    <<Num3(1, 0, 0)>> }

LegacyNextTags == {Num3(1, 1, 0), Num3(1, 1, 0) \o <<"-">> \o Str_dev}
LegacyCurrentTags == {NoneStr, <<>>, Num3(1, 0, 0)}
LegacyPrefixes == {NoneStr, <<>>, Str_dev}
LegacySuffixes == {NoneStr, <<>>, Str_rc}

LegacyNums == 0..(MaxNum + 1)

LegacyVersions ==
  {Num1(a) : a \in LegacyNums} \cup {Num2(a, b) : a \in LegacyNums, b \in LegacyNums}
    \cup {Num3(a, b, c) : a \in LegacyNums, b \in LegacyNums, c \in LegacyNums}
    \cup {<<"0", "1", ".", "0", ".", "1">>, <<"1", ".", "0", ".", "0", "9">>,
          <<"1", ".", "9", ".", "9">>, <<>>, <<"1", ".", "x", ".", "1">>,
          <<"1", ".", "0", ".", "x">>, <<"x", ".", "0", ".", "0">>}

LegacyFiles ==
  {Num1(a) : a \in Nums} \cup {Num2(a, b) : a \in Nums, b \in Nums}
    \cup {Num3(a, b, c) : a \in Nums, b \in Nums, c \in Nums}
    \cup {<<>>, <<"0", "1", ".", "0", ".", "0">>, <<"1", ".", "0", ".", "0", " ">>,
          <<"x">>, <<"1", ".", "0", ".", "0", ".", "0">>}

InitLegacy ==
  /\ SystemIdle
  /\ ret = Pending
  /\ \/ \E v \in LegacyVersions, f \in LegacyFiles :
          call = [fn |-> "increase_version", version |-> v, version_file |-> f]
     \/ \E n \in LegacyNextTags, p \in LegacyPrefixes, s \in LegacySuffixes,
           c \in LegacyCurrentTags, snap \in BOOLEAN, b \in Branches :
          call = [fn |-> "append_snapshot_version", next_tag |-> n, prefix |-> p,
                  suffix |-> s, current_tag |-> c, is_snapshot |-> snap, branch |-> b]
     \/ \E m \in LegacyModules, f \in LegacyModuleFiles, t \in LegacyModuleTags :
          call = [fn |-> "get_latest_tag_with_module", module |-> m, version_file |-> f,
                  tags |-> t]
     \/ \E f \in LegacyRepoFiles, t \in LegacyRepos :
          call = [fn |-> "get_latest_tag", version_file |-> f, repo |-> t]
     \/ \E x \in LegacySuffixNames, f \in LegacySuffixFiles, t \in LegacySuffixRepos,
           snap \in BOOLEAN, b \in {NoneStr, <<"f", "/", "x">>} :
          call = [fn |-> "get_latest_tag_with_suffix", suffix |-> x, version_file |-> f,
                  repo |-> t, is_snapshot |-> snap, branch |-> b]

IncreaseVersion ==
  /\ call.fn = "increase_version" /\ ret = Pending
  /\ ret' = [value |-> increase_version(call.version, call.version_file)]
  /\ UNCHANGED <<call, sysvars>>

AppendSnapshotVersion ==
  /\ call.fn = "append_snapshot_version" /\ ret = Pending
  /\ ret' = [value |-> append_snapshot_version(call.next_tag, call.prefix, call.suffix,
                                                call.current_tag, call.is_snapshot,
                                                call.branch)]
  /\ UNCHANGED <<call, sysvars>>

\* get_latest_tag_with_module(module, version_file=...) with get_tags returning call.tags
GetLatestTagWithModule ==
  /\ call.fn = "get_latest_tag_with_module" /\ ret = Pending
  /\ \E run \in {get_latest_tag_with_module(call.module, call.version_file, call.tags)} :
       /\ ret' = IF IsError(run) THEN Raise(run.error) ELSE [value |-> run.value]
       /\ github_output' = github_output \o run.output
  /\ UNCHANGED <<call, repo_tags, version_file, config, _tag_cache, _cache_timestamp,
                 _cache_ttl, now, request, result>>

\* get_latest_tag(version_file, repo_path) on a repository holding the tags call.repo
GetLatestTag ==
  /\ call.fn = "get_latest_tag" /\ ret = Pending
  /\ \E run \in {get_latest_tag(call.version_file, LegacyTagList(call.repo))} :
       /\ ret' = IF IsError(run) THEN Raise(run.error) ELSE [value |-> run.value]
       /\ github_output' = github_output \o run.output
  /\ UNCHANGED <<call, repo_tags, version_file, config, _tag_cache, _cache_timestamp,
                 _cache_ttl, now, request, result>>

\* get_latest_tag_with_suffix(suffix, version_file, branch, is_snapshot, repo_path) on a
\* repository holding the tags call.repo
GetLatestTagWithSuffix ==
  /\ call.fn = "get_latest_tag_with_suffix" /\ ret = Pending
  /\ \E run \in {get_latest_tag_with_suffix(call.suffix, call.version_file,
                                            LegacyTagList(call.repo), call.is_snapshot,
                                            call.branch)} :
       /\ ret' = IF IsError(run) THEN Raise(run.error) ELSE [value |-> run.value]
       /\ github_output' = github_output \o run.output
  /\ UNCHANGED <<call, repo_tags, version_file, config, _tag_cache, _cache_timestamp,
                 _cache_ttl, now, request, result>>

NextLegacy ==
  \/ IncreaseVersion
  \/ AppendSnapshotVersion
  \/ GetLatestTagWithModule
  \/ GetLatestTag
  \/ GetLatestTagWithSuffix

SpecLegacy == InitLegacy /\ [][NextLegacy]_vars

\* the text of three decimal numbers joined by dots
Dotted(a, b, c) == a \o <<".">> \o b \o <<".">> \o c

LegacyCurrent == Split(call.version, ".")
LegacyBase == Split(Strip(call.version_file), ".")

\* the version file holds a semver and the current tag has three numeric components
LegacySemverCase ==
  /\ call.fn = "increase_version" /\ Done
  /\ Len(LegacyBase) = 3 /\ \A i \in 1..3 : IsCanonicalNumber(LegacyBase[i])
  /\ Len(LegacyCurrent) = 3 /\ \A i \in 1..3 : IsDigits(LegacyCurrent[i])

----------------------------------------------------------------------------
(* Spec: a VersionSystem over a repository, its version file and its tags *)

\* create_tag without the invalidation of the cache
CreateTagKeepingCache(tags, cache, tag_name, git_ok) ==
  IF tag_name \in tags \/ ~git_ok
    THEN [error |-> "GitOperationError", tags |-> tags, cache |-> cache]
    ELSE [value |-> TRUE, tags |-> tags \cup {tag_name}, cache |-> cache]

\* TagManager.create_tag on a repository holding tags: git tag refuses an existing name
\* (non-zero exit), and ~git_ok is a command that times out
create_tag(tags, cache, tag_name, git_ok) ==
  IF tag_name \in tags \/ ~git_ok
    THEN [error |-> "GitOperationError", tags |-> tags, cache |-> cache]
    ELSE [value |-> TRUE, tags |-> tags \cup {tag_name}, cache |-> NoCache]

\* no run starts once GITHUB_OUTPUT holds this many lines
MaxOutput == 2

\* the latest minute of the clock
MaxTime == 6

Str_1 == <<"1">>
Str_snapshot == <<"s", "n", "a", "p", "s", "h", "o", "t">>
Str_f_x == <<"f", "/", "x">>


\* the tag names a repository is populated from
TagPool ==
  { Num3(1, 0, 0), Num2(1, 0),
    Tagged(Str_node, Num3(1, 0, 0)), Tagged(Str_node, Num3(1, 0, 1)),
    Tagged(Str_1, Num3(1, 0, 0)),
    Tagged(Str_dev, Num3(1, 0, 0)),
    Suffixed(Num3(1, 0, 0), Str_rc),
    Tagged(<<"m", "y", "-">> \o Str_node, Num3(1, 0, 1)) }

\* the contents of the version file; NoneStr is a file that cannot be read
VersionFiles ==
  { Num3(1, 0, 1), Num3(0, 1, 1), Num2(1, 0), NoneStr,
    Tagged(Str_dev, Num3(1, 0, 0)), Suffixed(Num3(1, 0, 0), Str_rc), <<" ", "\n">> }

SystemConfigs ==
  { DefaultConfig, VersionConfig("semver", "patch", Str_dev, NoneStr) }

Qualifiers ==
  { <<NoneStr, NoneStr, NoneStr>>,
    <<Str_dev, NoneStr, NoneStr>>, <<Str_dev \o <<"-">>, NoneStr, NoneStr>>,
    <<Str_snapshot, NoneStr, NoneStr>>,
    <<NoneStr, Str_rc, NoneStr>>,
    <<NoneStr, NoneStr, Str_node>>, <<NoneStr, NoneStr, Str_1>>,
    <<NoneStr, NoneStr, Str_a__b>>,
    <<Str_dev, NoneStr, Str_node>>,
    <<Str_dev, Str_rc, NoneStr>>, <<<<>>, NoneStr, Str_node>>,
    <<SNAPSHOT \o <<"-">>, NoneStr, NoneStr>>,
    <<NoneStr, <<"S", "n", "a", "p", "S", "h", "o", "t">>, NoneStr>> }

Requests ==
  { Request(q[1], q[2], q[3], NoneStr, FALSE) : q \in Qualifiers }
    \cup { Request(NoneStr, NoneStr, Str_node, Str_f_x, TRUE),
           Request(NoneStr, NoneStr, NoneStr, NoneStr, TRUE) }

Init ==
  /\ FnIdle
  /\ repo_tags \in {tags \in SUBSET TagPool : Cardinality(tags) <= MaxTags}
  /\ version_file \in VersionFiles
  /\ config \in SystemConfigs
  /\ _tag_cache = NoCache
  /\ _cache_timestamp = NoneInt
  /\ _cache_ttl = CacheTtlMinutes
  /\ now = 0
  /\ github_output = <<>>
  /\ request \in Requests
  /\ result = Pending

\* one run of VersionSystem.process_version_request(request); git_ok is whether the
\* git tag -l command succeeds, and result.listing_failed records a command that was
\* issued and failed
ProcessVersionRequest ==
  /\ Len(github_output) < MaxOutput
  /\ \E git_ok \in BOOLEAN :
     \E run \in {process_version_request(
                  request, version_file, config, _tag_cache, _cache_timestamp, _cache_ttl,
                  now, [ok |-> git_ok, lines |-> GitTagList(repo_tags)])} :
       /\ result' = run @@ [listing_failed |-> run.listed /\ ~git_ok]
       /\ config' = run.config
       /\ _tag_cache' = run.cache
       /\ _cache_timestamp' = run.timestamp
       /\ github_output' = github_output \o run.output
       /\ UNCHANGED <<fnvars, repo_tags, version_file, _cache_ttl, now, request>>

\* TagManager.create_tag(result) after a run that returned a tag name; a git tag that
\* fails raises GitOperationError and changes nothing
CreateTag ==
  /\ result # Pending
  /\ ~IsError(result)
  /\ LET created == create_tag(repo_tags, _tag_cache, result.value, TRUE)
     IN /\ ~IsError(created)
        /\ repo_tags' = created.tags
        /\ _tag_cache' = created.cache
  /\ UNCHANGED <<fnvars, version_file, config, _cache_timestamp, _cache_ttl, now,
                 github_output, request, result>>

\* time passes until the cache is older than its time-to-live
Tick ==
  /\ now + _cache_ttl + 1 <= MaxTime
  /\ now' = now + _cache_ttl + 1
  /\ UNCHANGED <<fnvars, repo_tags, version_file, config, _tag_cache, _cache_timestamp,
                 _cache_ttl, github_output, request, result>>

Next == ProcessVersionRequest \/ CreateTag \/ Tick

Spec == Init /\ [][Next]_vars

\* the numbers of a dotted numeric string, absent components as 0
Numbers(numeric) ==
  LET parts == Split(numeric, ".")
  IN <<Atoi(parts[1]),
       IF Len(parts) >= 2 THEN Atoi(parts[2]) ELSE 0,
       IF Len(parts) >= 3 THEN Atoi(parts[3]) ELSE 0>>

\* the X.Y.Z of the tags m-X.Y.Z of a tag list
ModuleTagNumerics(tag_list, m) ==
  { After(tag_list[i], Len(m) + 1) : i \in
      { j \in 1..Len(tag_list) :
          /\ Len(tag_list[j]) > Len(m) + 1
          /\ SubSeq(tag_list[j], 1, Len(m) + 1) = m \o <<"-">>
          /\ IsNumeric(After(tag_list[j], Len(m) + 1), 3) } }

GreatestNumbers(numerics) ==
  CHOOSE x \in {Numbers(n) : n \in numerics} :
    \A n \in numerics : ~TupleGreater(Numbers(n), x)

\* a run of a plain module request over a semver baseline that had the tag list
\* (result.cache) to look at
ModuleRunDone ==
  /\ result # Pending
  /\ request.module # NoneStr
  /\ request.prefix = NoneStr
  /\ request.suffix = NoneStr
  /\ ~request.is_snapshot
  /\ validate_module_name(request.module)
  /\ version_file # NoneStr
  /\ IsNumeric(Strip(version_file), 3)
  /\ result.swallowed # "GitOperationError"
  /\ result.cache # NoCache
  /\ ModuleTagNumerics(result.cache, request.module) # {}

\* what the claim expects of a module run
ExpectedModuleTag ==
  LET b == Numbers(Strip(version_file))
      t == GreatestNumbers(ModuleTagNumerics(result.cache, request.module))
      s == IF TupleGreater(b, t) THEN b ELSE t
  IN Tagged(request.module, Num3(s[1], s[2], s[3] + 1))

\* C3: for every module name m that validation accepts and every semver baseline b,
\* when the tag list holds a tag m-X.Y.Z, process_version_request(module=m) returns
\* m-V with V the patch increment of the greater of b and the greatest X.Y.Z
\* (the tag on ties).
C3_ModuleRequestIncrementsGreatest ==
  ModuleRunDone => ~IsError(result) /\ result.value = ExpectedModuleTag

\* C9: the version value process_version_request renders has at most one of module
\* and prefix set, for every request and every configuration.
C9_ModuleAndPrefixExclusive ==
  result # Pending /\ ~IsError(result)
    => ~(Truthy(result.next_version.module) /\ Truthy(result.next_version.prefix))

----------------------------------------------------------------------------
(* SpecModule: VersionParser.validate_module_name on module names *)

\* longest module name built from ModuleAlphabet
MaxNameLen == 3

ModuleAlphabet == {"a", "1", "-", "_", ".", "@", "\n"}

RECURSIVE NamesOfLen(_)
NamesOfLen(n) ==
  IF n = 0 THEN {<<>>}
  ELSE {<<c>> \o t : c \in ModuleAlphabet, t \in NamesOfLen(n - 1)}

RECURSIVE Repeat(_, _)
Repeat(c, n) == IF n = 0 THEN <<>> ELSE <<c>> \o Repeat(c, n - 1)

Str_my_cli_v2 == <<"m", "y", "_", "c", "l", "i", "-", "v", "2">>

\* names around the length limit, and the names of the documentation and tests
LongNames ==
  { Repeat("a", MaxModuleLen - 1), Repeat("a", MaxModuleLen), Repeat("a", MaxModuleLen + 1),
    Repeat("a", MaxModuleLen - 1) \o <<"-">>, Repeat("a", MaxModuleLen - 2) \o <<"-", "b">>,
    Str_my_cli_v2, <<"-">> \o Str_my_cli, Str_my_cli \o <<"_">>,
    <<"m", "y", "@", "c", "l", "i">>, Str_a__b, Str_x_y }

ModuleNames == UNION {NamesOfLen(n) : n \in 0..MaxNameLen} \cup LongNames \cup {NoneStr}

InitModule ==
  /\ SystemIdle
  /\ ret = Pending
  /\ \E name \in ModuleNames : call = [fn |-> "validate_module_name", module_name |-> name]

\* parser.validate_module_name(module_name)
ValidateModuleName ==
  /\ call.fn = "validate_module_name" /\ ret = Pending
  /\ ret' = IF validate_module_name(call.module_name)
              THEN [value |-> NoneStr]
              ELSE Raise("ValidationError")
  /\ UNCHANGED <<call, sysvars>>

NextModule == ValidateModuleName

SpecModule == InitModule /\ [][NextModule]_vars

\* the naming rule as documented
NamingRule(name) ==
  /\ name # NoneStr
  /\ Len(name) >= 1
  /\ Len(name) <= 50
  /\ IsAlnum(name[1])
  /\ IsAlnum(name[Len(name)])
  /\ \A i \in 2..(Len(name) - 1) : IsAlnum(name[i]) \/ name[i] \in {"-", ".", "_"}
  /\ \A i \in 1..(Len(name) - 1) : ~(name[i] = name[i + 1] /\ name[i] \in {"-", ".", "_"})

\* C11: validate_module_name accepts a name exactly when it is non-empty, at most 50
\* characters long, starts and ends with an alphanumeric character, has only
\* alphanumerics, hyphens, dots and underscores in between and contains none of
\* '--', '__', '..'; every other name raises a validation error.
C11_ModuleNameRule ==
  (call.fn = "validate_module_name" /\ Done) =>
    IF NamingRule(call.module_name) THEN ~IsError(ret) ELSE ret = Raise("ValidationError")

----------------------------------------------------------------------------
(* create_snapshot_version, under SpecCalc *)

SnapshotDone == call.fn = "create_snapshot_version" /\ Done

\* the first 20 characters of the branch name with every '/' replaced by '-'
CleanBranch(branch) ==
  [i \in 1..(IF Len(branch) < 20 THEN Len(branch) ELSE 20) |->
     IF branch[i] = "/" THEN "-" ELSE branch[i]]

\* C12: create_snapshot_version(base, branch) keeps major, minor, patch, prefix and
\* module of base; its suffix is exactly SNAPSHOT when no branch (None or the empty
\* string) is given and otherwise the first 20 characters of the branch name with every
\* '/' replaced by '-', followed by -SNAPSHOT, whatever suffix base carried.
C12_SnapshotSuffix ==
  SnapshotDone =>
    /\ ret.major = call.base.major
    /\ ret.minor = call.base.minor
    /\ ret.patch = call.base.patch
    /\ ret.prefix = call.base.prefix
    /\ ret.module = call.base.module
    /\ ret.suffix = IF call.branch = NoneStr \/ call.branch = <<>>
                      THEN <<"S", "N", "A", "P", "S", "H", "O", "T">>
                      ELSE CleanBranch(call.branch)
                             \o <<"-", "S", "N", "A", "P", "S", "H", "O", "T">>

\* feature/PROJ-1234-test-branch on a base that carries a suffix gives
\* feature-PROJ-1234-te-SNAPSHOT
C12_Witness ==
  /\ SnapshotDone
  /\ call.branch = Str_feature_branch
  /\ Truthy(call.base.suffix)
  /\ ret.suffix = <<"f", "e", "a", "t", "u", "r", "e", "-", "P", "R", "O", "J", "-", "1", "2",
                    "3", "4", "-", "t", "e", "-", "S", "N", "A", "P", "S", "H", "O", "T">>

----------------------------------------------------------------------------
(* append_snapshot_version, under SpecLegacy *)

AppendDone == call.fn = "append_snapshot_version" /\ Done

Present(s) == s # NoneStr /\ s # <<>>

\* a version decorated with the prefix, or else with the suffix
Decorated(version, prefix, suffix) ==
  IF Present(prefix) THEN prefix \o <<"-">> \o version
  ELSE IF Present(suffix) THEN version \o <<"-">> \o suffix
  ELSE version

\*  '-' and the first 20 characters of the branch with '/' replaced by '-', if any
BranchPart(branch) ==
  IF Present(branch) THEN <<"-">> \o CleanBranch(branch) ELSE <<>>

\* C13: legacy append_snapshot_version: without is_snapshot the result is next_tag
\* decorated with the prefix (or else the suffix) and nothing else; with is_snapshot the
\* base is next_tag when a current tag exists and 0.0.1 otherwise, decorated with prefix
\* or suffix, then '-' and the cleaned 20-character branch if a branch is given, then
\* -SNAPSHOT.
C13_LegacySnapshot ==
  AppendDone =>
    IF call.is_snapshot
      THEN ret.value =
             Decorated(IF Present(call.current_tag) THEN call.next_tag
                       ELSE <<"0", ".", "0", ".", "1">>,
                       call.prefix, call.suffix)
               \o BranchPart(call.branch)
               \o <<"-", "S", "N", "A", "P", "S", "H", "O", "T">>
      ELSE ret.value = Decorated(call.next_tag, call.prefix, call.suffix)

\* a snapshot of a suffixed request on a branch: the suffix stays before the marker
C13_Witness ==
  /\ AppendDone /\ call.is_snapshot
  /\ Present(call.current_tag) /\ ~Present(call.prefix) /\ call.suffix = Str_rc
  /\ call.branch = <<"f", "/", "x">>
  /\ call.next_tag = Num3(1, 1, 0)
  /\ ret.value = <<"1", ".", "1", ".", "0", "-", "r", "c", "-", "f", "-", "x", "-",
                   "S", "N", "A", "P", "S", "H", "O", "T">>

----------------------------------------------------------------------------
(* Failures of the collaborators of process_version_request, under Spec *)

RunDone == result # Pending

\* C14: when the tag-listing command fails during process_version_request the run
\* aborts with an error, returns no next version and writes nothing to GITHUB_OUTPUT;
\* likewise when the version file cannot be read.
C14_CollaboratorFailuresAbort ==
  RunDone =>
    /\ result.listing_failed => IsError(result) /\ result.output = <<>>
    /\ version_file = NoneStr => IsError(result) /\ result.output = <<>>

\* the half of C14 about the version file
C14_UnreadableFileAborts ==
  (RunDone /\ version_file = NoneStr) => IsError(result) /\ result.output = <<>>

----------------------------------------------------------------------------
(* TagManager.get_all_tags on the raw output of git tag -l, SpecList *)

\* longest raw output of the listing command
MaxStdoutLen == 4

StdoutAlphabet == {"a", "b", " ", "\n"}

RECURSIVE StdoutsOfLen(_)
StdoutsOfLen(n) ==
  IF n = 0 THEN {<<>>}
  ELSE {<<c>> \o t : c \in StdoutAlphabet, t \in StdoutsOfLen(n - 1)}

Stdouts == UNION {StdoutsOfLen(n) : n \in 0..MaxStdoutLen}

\* result.stdout.strip().split('\n') if result.stdout.strip() else []
StdoutLines(stdout) ==
  IF Strip(stdout) = <<>> THEN <<>> ELSE Split(Strip(stdout), "\n")

InitList ==
  /\ SystemIdle
  /\ ret = Pending
  /\ \E stdout \in Stdouts : call = [fn |-> "get_all_tags", stdout |-> stdout]

\* the first get_all_tags() of a TagManager whose git tag -l prints call.stdout
GetAllTagsOfStdout ==
  /\ call.fn = "get_all_tags" /\ ret = Pending
  /\ \E listing \in {get_all_tags(_tag_cache, _cache_timestamp, _cache_ttl, now, FALSE,
                                  [ok |-> TRUE, lines |-> StdoutLines(call.stdout)])} :
       /\ ret' = [value |-> listing.value]
       /\ _tag_cache' = listing.cache
       /\ _cache_timestamp' = listing.timestamp
  /\ UNCHANGED <<call, repo_tags, version_file, config, _cache_ttl, now, github_output,
                 request, result>>

NextList == GetAllTagsOfStdout

SpecList == InitList /\ [][NextList]_vars

ListDone == call.fn = "get_all_tags" /\ Done

\* C15: for every raw output of the listing command, get_all_tags returns tag names
\* that are sorted, pairwise different, non-empty and free of leading and trailing
\* whitespace.
C15_TagListSortedUniqueTrimmed ==
  ListDone =>
    LET tags == ret.value
    IN /\ \A i, j \in 1..Len(tags) : i < j => StrLess(tags[i], tags[j])
       /\ \A i \in 1..Len(tags) : tags[i] # <<>> /\ Strip(tags[i]) = tags[i]

\* the part of C15 the code provides by itself: entries are trimmed and non-empty
C15_TagListTrimmed ==
  ListDone => \A i \in 1..Len(ret.value) : ret.value[i] # <<>> /\ Strip(ret.value[i]) = ret.value[i]

----------------------------------------------------------------------------
(* SpecTags: one TagManager, its cache and the clock *)

\* the tag names created in the repository
TagNames == {Num3(1, 0, 0), Num3(1, 0, 1)}

\* the arguments of set_cache_ttl, in minutes
TtlChoices == {1, CacheTtlMinutes}

\* the start of the next call; call.turn alternates from one call to the next
Invoke(fn) == [fn |-> fn, turn |-> 1 - call.turn]

InitTags ==
  /\ call = [fn |-> "__init__", turn |-> 0]
  /\ ret = Pending
  /\ repo_tags \in SUBSET TagNames
  /\ version_file = NoneStr
  /\ config = DefaultConfig
  /\ _tag_cache = NoCache
  /\ _cache_timestamp = NoneInt
  /\ _cache_ttl = CacheTtlMinutes
  /\ now = 0
  /\ github_output = <<>>
  /\ request = NoRequest
  /\ result = Pending

\* what a call of get_all_tags leaves to its caller
Listed(listing) ==
  IF IsError(listing)
    THEN [error |-> listing.error, listed |-> listing.listed]
    ELSE [value |-> listing.value, listed |-> listing.listed]

\* TagManager.get_all_tags(force_refresh)
GetAllTags ==
  \E force_refresh, git_ok \in BOOLEAN :
  \E listing \in {get_all_tags(_tag_cache, _cache_timestamp, _cache_ttl, now, force_refresh,
                               [ok |-> git_ok, lines |-> GitTagList(repo_tags)])} :
    /\ call' = Invoke("get_all_tags") @@ [force_refresh |-> force_refresh, git_ok |-> git_ok]
    /\ ret' = Listed(listing)
    /\ _tag_cache' = listing.cache
    /\ _cache_timestamp' = listing.timestamp
    /\ UNCHANGED <<repo_tags, version_file, config, _cache_ttl, now, github_output,
                   request, result>>

\* tag_name in all_tags
InList(tag_name, all_tags) == \E i \in 1..Len(all_tags) : all_tags[i] = tag_name

\* TagManager.tag_exists(tag_name)
TagExists ==
  \E tag_name \in TagNames, git_ok \in BOOLEAN :
  \E listing \in {get_all_tags(_tag_cache, _cache_timestamp, _cache_ttl, now, FALSE,
                               [ok |-> git_ok, lines |-> GitTagList(repo_tags)])} :
    /\ call' = Invoke("tag_exists")
                 @@ [tag_name |-> tag_name, force_refresh |-> FALSE, git_ok |-> git_ok]
    /\ ret' = IF IsError(listing) THEN Listed(listing)
              ELSE [value |-> InList(tag_name, listing.value), listed |-> listing.listed]
    /\ _tag_cache' = listing.cache
    /\ _cache_timestamp' = listing.timestamp
    /\ UNCHANGED <<repo_tags, version_file, config, _cache_ttl, now, github_output,
                   request, result>>

\* TagManager.create_tag(tag_name)
CreateTagNamed ==
  \E tag_name \in TagNames, git_ok \in BOOLEAN :
  \E created \in {create_tag(repo_tags, _tag_cache, tag_name, git_ok)} :
    /\ call' = Invoke("create_tag") @@ [tag_name |-> tag_name, git_ok |-> git_ok]
    /\ ret' = IF IsError(created) THEN Raise(created.error) ELSE [value |-> created.value]
    /\ repo_tags' = created.tags
    /\ _tag_cache' = created.cache
    /\ UNCHANGED <<version_file, config, _cache_timestamp, _cache_ttl, now, github_output,
                   request, result>>

\* TagManager.clear_cache()
ClearCache ==
  /\ call' = Invoke("clear_cache")
  /\ ret' = [value |-> NoneStr]
  /\ _tag_cache' = NoCache
  /\ _cache_timestamp' = NoneInt
  /\ UNCHANGED <<repo_tags, version_file, config, _cache_ttl, now, github_output,
                 request, result>>

\* TagManager.set_cache_ttl(ttl_minutes)
SetCacheTtl ==
  \E ttl_minutes \in TtlChoices :
    /\ call' = Invoke("set_cache_ttl") @@ [ttl_minutes |-> ttl_minutes]
    /\ ret' = [value |-> NoneStr]
    /\ _cache_ttl' = ttl_minutes
    /\ UNCHANGED <<repo_tags, version_file, config, _tag_cache, _cache_timestamp, now,
                   github_output, request, result>>

\* datetime.now() advances by a minute
Minute ==
  /\ now < MaxTime
  /\ now' = now + 1
  /\ UNCHANGED <<fnvars, repo_tags, version_file, config, _tag_cache, _cache_timestamp,
                 _cache_ttl, github_output, request, result>>

NextTags == GetAllTags \/ TagExists \/ CreateTagNamed \/ ClearCache \/ SetCacheTtl \/ Minute

SpecTags == InitTags /\ [][NextTags]_vars

\* a step that is a call of fn
Calls(fn) == call'.turn # call.turn /\ call'.fn = fn

\* the step lists the tags with the external command and the command succeeds
SuccessfulListing ==
  /\ Calls("get_all_tags") \/ Calls("tag_exists")
  /\ ret'.listed /\ ~IsError(ret')

\* what the claim lets a call with this force_refresh do in the current state
MustList(force_refresh) ==
  \/ _tag_cache = NoCache
  \/ force_refresh
  \/ _cache_timestamp # NoneInt /\ now - _cache_timestamp > _cache_ttl

\* C16: get_all_tags runs the external listing exactly when no list is cached,
\* force_refresh is set or more than the time-to-live has passed since the last
\* successful listing (the only steps that set the cached list and its timestamp);
\* otherwise it returns the cached list and leaves the cache alone; a listing that
\* fails raises GitOperationError, returns no list and leaves the cache alone.
C16_CacheHitRule ==
  [][ /\ (Calls("get_all_tags") \/ Calls("tag_exists")) =>
           (ret'.listed <=> MustList(call'.force_refresh))
      /\ (Calls("get_all_tags") /\ ~MustList(call'.force_refresh)) =>
           /\ ~IsError(ret') /\ ret'.value = _tag_cache
           /\ UNCHANGED <<_tag_cache, _cache_timestamp>>
      /\ (Calls("get_all_tags") /\ MustList(call'.force_refresh) /\ ~call'.git_ok) =>
           /\ ret' = [error |-> "GitOperationError", listed |-> TRUE]
           /\ UNCHANGED <<_tag_cache, _cache_timestamp>>
      /\ (Calls("get_all_tags") /\ MustList(call'.force_refresh) /\ call'.git_ok) =>
           /\ ~IsError(ret') /\ ret'.value = GitTagList(repo_tags)
           /\ _tag_cache' = ret'.value /\ _cache_timestamp' = now
      /\ (_tag_cache' # _tag_cache /\ _tag_cache' # NoCache) => SuccessfulListing
      /\ (_cache_timestamp' # _cache_timestamp /\ _cache_timestamp' # NoneInt) =>
           SuccessfulListing /\ _cache_timestamp' = now
      /\ (_cache_ttl' # _cache_ttl) => Calls("set_cache_ttl")
    ]_vars

\* a cached list returned without a listing when exactly the default time-to-live has
\* passed since it was listed
C16_Witness ==
  /\ call.fn = "get_all_tags" /\ ~call.force_refresh
  /\ ~IsError(ret) /\ ~ret.listed /\ ret.value = <<Num3(1, 0, 0)>>
  /\ _cache_ttl = CacheTtlMinutes
  /\ now - _cache_timestamp = CacheTtlMinutes

----------------------------------------------------------------------------
(* SpecPattern: the tags of a repository matching a pattern *)

\* tags whose order by name differs from their order by version, tags of several
\* namespaces, and 1-1.0.0, which the module pattern of "1" matches and parse rejects
PatternTagPool ==
  { Num3(1, 0, 2), Num3(1, 0, 10), Num3(1, 1, 0), Num2(1, 0),
    Tagged(Str_node, Num3(1, 0, 2)), Tagged(Str_node, Num3(1, 0, 10)),
    Tagged(Str_1, Num3(1, 0, 0)), Tagged(Str_1, Num3(1, 0, 1)),
    Tagged(Str_dev, Num3(1, 0, 0)),
    Suffixed(Num3(1, 0, 0), Str_rc) }

\* most tags of a repository
MaxPatternTags == 3

Patterns ==
  { TagPattern(3, NoneStr, NoneStr, NoneStr), TagPattern(2, NoneStr, NoneStr, NoneStr),
    TagPattern(3, NoneStr, NoneStr, Str_node), TagPattern(3, NoneStr, NoneStr, Str_1),
    TagPattern(3, Str_dev, NoneStr, NoneStr), TagPattern(3, NoneStr, Str_rc, NoneStr) }

InitPattern ==
  /\ ret = Pending
  /\ \E fn \in {"get_tags_matching_pattern", "get_latest_tag_for_pattern"},
        pattern \in Patterns :
       call = [fn |-> fn, pattern |-> pattern]
  /\ repo_tags \in {tags \in SUBSET PatternTagPool : Cardinality(tags) <= MaxPatternTags}
  /\ version_file = NoneStr
  /\ config = DefaultConfig
  /\ _tag_cache = NoCache
  /\ _cache_timestamp = NoneInt
  /\ _cache_ttl = CacheTtlMinutes
  /\ now = 0
  /\ github_output = <<>>
  /\ request = NoRequest
  /\ result = Pending

\* TagManager.get_tags_matching_pattern(pattern) of a new TagManager
GetTagsMatchingPattern ==
  /\ call.fn = "get_tags_matching_pattern" /\ ret = Pending
  /\ \E git_ok \in BOOLEAN :
     \E listing \in {get_all_tags(_tag_cache, _cache_timestamp, _cache_ttl, now, FALSE,
                                  [ok |-> git_ok, lines |-> GitTagList(repo_tags)])} :
       /\ ret' = IF IsError(listing) THEN Raise(listing.error)
                 ELSE [value |-> get_tags_matching_pattern(listing.value, call.pattern)]
       /\ _tag_cache' = listing.cache
       /\ _cache_timestamp' = listing.timestamp
  /\ UNCHANGED <<call, repo_tags, version_file, config, _cache_ttl, now, github_output,
                 request, result>>

\* TagManager.get_latest_tag_for_pattern(pattern) of a new TagManager
GetLatestTagForPattern ==
  /\ call.fn = "get_latest_tag_for_pattern" /\ ret = Pending
  /\ \E git_ok \in BOOLEAN :
     \E listing \in {get_all_tags(_tag_cache, _cache_timestamp, _cache_ttl, now, FALSE,
                                  [ok |-> git_ok, lines |-> GitTagList(repo_tags)])} :
       /\ ret' = IF IsError(listing) THEN Raise(listing.error)
                 ELSE [value |-> get_latest_tag_for_pattern(listing.value, call.pattern)]
       /\ _tag_cache' = listing.cache
       /\ _cache_timestamp' = listing.timestamp
  /\ UNCHANGED <<call, repo_tags, version_file, config, _cache_ttl, now, github_output,
                 request, result>>

NextPattern == GetTagsMatchingPattern \/ GetLatestTagForPattern

SpecPattern == InitPattern /\ [][NextPattern]_vars

\* the tags of the repository that match the pattern of the call and parse
Candidates == {t \in repo_tags : matches(call.pattern, t) /\ ~IsError(parse(t))}

\* the call has returned after a listing that succeeded
PatternDone(fn) == call.fn = fn /\ Done /\ _tag_cache # NoCache

\* C18: get_latest_tag_for_pattern returns none exactly when no tag matches the pattern
\* and parses, and otherwise the record of such a tag that no other such tag exceeds;
\* get_tags_matching_pattern returns the records of exactly these tags in ascending
\* order; a tag that matches and does not parse is left out and raises nothing.
C18_LatestAndSortedMatches ==
  /\ PatternDone("get_latest_tag_for_pattern") =>
       /\ ~IsError(ret)
       /\ ret.value = NoTagInfo <=> Candidates = {}
       /\ ret.value # NoTagInfo =>
            /\ ret.value.name \in Candidates
            /\ ret.value.version_info = parse(ret.value.name)
            /\ \A t \in Candidates : ~VersionLt(ret.value.version_info, parse(t))
  /\ PatternDone("get_tags_matching_pattern") =>
       /\ ~IsError(ret)
       /\ Len(ret.value) = Cardinality(Candidates)
       /\ \A t \in Candidates : \E i \in 1..Len(ret.value) : ret.value[i] = TagInfo(t, parse(t))
       /\ \A i, j \in 1..Len(ret.value) :
            i < j => ~VersionLt(ret.value[j].version_info, ret.value[i].version_info)

\* 1.0.10 returned as the latest of a list that holds 1.0.2 after it, next to a tag
\* that matches another pattern without parsing
C18_Witness ==
  /\ PatternDone("get_latest_tag_for_pattern")
  /\ {Num3(1, 0, 2), Num3(1, 0, 10), Tagged(Str_1, Num3(1, 0, 0))} = repo_tags
  /\ ret.value = TagInfo(Num3(1, 0, 10), parse(Num3(1, 0, 10)))

----------------------------------------------------------------------------
(* The content of the version file *)

\* a bare major, major.minor or major.minor.patch number
Bare(content) == \E n \in 1..3 : IsNumeric(content, n)

\* C19: a version file whose trimmed content is not a bare major, major.minor or
\* major.minor.patch number (empty, blank, dev-1.0.0, 1.0.0-rc, ...) makes
\* process_version_request and the legacy get_latest_tag_with_module fail with an
\* error and return no tag.
C19_OnlyBareVersionFiles ==
  /\ (RunDone /\ version_file # NoneStr /\ ~Bare(Strip(version_file))) =>
       IsError(result) /\ result.output = <<>>
  /\ (call.fn = "get_latest_tag_with_module" /\ Done /\ call.version_file # NoneStr
        /\ ~Bare(Strip(call.version_file))) =>
       ret = Raise("ValueError")

\* the part of C19 about empty and blank files, which process_version_request rejects
C19_BlankFileRejected ==
  (RunDone /\ version_file # NoneStr /\ Strip(version_file) = <<>>) =>
    IsError(result) /\ result.output = <<>>

----------------------------------------------------------------------------
(* Requests that give more than one of prefix, suffix and module *)

\* how many of the three options the request gives (is not None)
Supplied(req) ==
  Cardinality({i \in 1..3 : <<req.prefix, req.suffix, req.module>>[i] # NoneStr})

\* C20: a run of process_version_request whose request gives more than one of prefix,
\* suffix and module raises an error of the version system, returns no version, writes
\* nothing to GITHUB_OUTPUT, and has read neither the version file (the configuration
\* is not adjusted to it) nor the tags (no listing, cache and timestamp untouched).
C20_OneQualifierOnly ==
  [][ (result' # result /\ Supplied(request) > 1) =>
        /\ IsError(result') /\ result'.error \in VersionSystemErrors
        /\ result'.output = <<>>
        /\ ~result'.listed /\ result'.swallowed = "none"
        /\ UNCHANGED <<github_output, config, _tag_cache, _cache_timestamp>>
    ]_vars

\* a request with prefix dev and module node is refused although the version file 1.0
\* would have switched the increment to minor and the repository has tags
C20_Witness ==
  /\ RunDone /\ IsError(result)
  /\ request.prefix = Str_dev /\ request.module = Str_node
  /\ version_file = Num2(1, 0) /\ config.increment_type = "patch"
  /\ repo_tags # {} /\ _tag_cache = NoCache /\ github_output = <<>>

----------------------------------------------------------------------------
(* get_latest_tag_with_module on a module without tags, SpecLegacy *)

\* C24: get_latest_tag_with_module with a valid module name, a valid version file and
\* an empty tag list for the module raises ValueError ('No tags found').
C24_NoModuleTagsRaises ==
  (call.fn = "get_latest_tag_with_module" /\ Done
     /\ ValidateModuleNameLegacy(call.module) /\ VersionFileAccepted(call.version_file)
     /\ call.tags = <<>>) =>
    ret = Raise("ValueError")

----------------------------------------------------------------------------
(* The baseline as a floor, SpecCalc *)

\* C25: whenever calculate_next_version succeeds, is_version_compatible(result,
\* baseline) is true: the result's (major, minor or 0, patch or 0) is not below the
\* baseline's.
C25_BaselineIsFloor ==
  (CalcDone /\ ~IsError(ret)) => is_version_compatible(ret, call.base)

----------------------------------------------------------------------------
(* get_latest_tag and the baseline, SpecLegacy *)

\* the integers of a dotted version string
IntTuple(version) == [i \in 1..Len(Split(version, ".")) |-> Atoi(Split(version, ".")[i])]

\* C22: for a semver baseline and a repository whose tags are plain semver tags, at
\* least one, get_latest_tag returns a semver string whose (major, minor, patch) is not
\* below the baseline's.
C22_LatestTagNotBelowBaseline ==
  (call.fn = "get_latest_tag" /\ Done
     /\ call.version_file # NoneStr /\ IsCanonical(Strip(call.version_file), 3)
     /\ call.repo # {} /\ \A t \in call.repo : IsNumeric(t, 3)) =>
    /\ ~IsError(ret)
    /\ IsNumeric(ret.value, 3)
    /\ ~IntListLess(IntTuple(ret.value), IntTuple(Strip(call.version_file)))

\* the version of a tag version-suffix
VersionOfSuffixTag(tag) == Split(tag, "-")[1]

CleanSuffixRepo ==
  /\ call.fn = "get_latest_tag_with_suffix" /\ Done
  /\ ~Contains(call.suffix, <<"-">>) /\ ~call.is_snapshot
  /\ call.version_file # NoneStr /\ IsCanonical(Strip(call.version_file), 2)
  /\ call.repo # {}
  /\ \A t \in call.repo : \E v \in {VersionOfSuffixTag(t)} :
       IsNumeric(v, 2) /\ t = Suffixed(v, call.suffix)

\* C23: legacy get_latest_tag_with_suffix, on a repository of major.minor-suffix tags,
\* reports as current tag the tag whose version is greatest as integers and returns a
\* version greater than it, with the suffix re-appended and without SNAPSHOT
C23_GreatestSuffixTagAdvanced ==
  CleanSuffixRepo =>
    /\ ~IsError(ret)
    /\ github_output # <<>> /\ github_output[1][1] = "current_tag"
    /\ github_output[1][2] \in call.repo
    /\ \A t \in call.repo :
         ~IntListLess(IntTuple(VersionOfSuffixTag(github_output[1][2])),
                      IntTuple(VersionOfSuffixTag(t)))
    /\ ret.value = Suffixed(VersionOfSuffixTag(ret.value), call.suffix)
    /\ IntListLess(IntTuple(VersionOfSuffixTag(github_output[1][2])),
                   IntTuple(VersionOfSuffixTag(ret.value)))

-----------------------------------------------------------------------------
(* The keyword SNAPSHOT as prefix or suffix of a request, under Spec *)

\* Python: s.startswith(head)
StartsWith(s, head) == Len(s) >= Len(head) /\ SubSeq(s, 1, Len(head)) = head

\* Python: s.endswith(tail)
EndsWith(s, tail) == Len(s) >= Len(tail) /\ SubSeq(s, Len(s) - Len(tail) + 1, Len(s)) = tail

\* the request gives SNAPSHOT, in some letter case, as prefix or as suffix
AsksForSnapshot(req) ==
  \/ Truthy(req.prefix) /\ Upper(req.prefix) = SNAPSHOT
  \/ Truthy(req.suffix) /\ Upper(req.suffix) = SNAPSHOT

\* C21: a run of process_version_request whose prefix or suffix is SNAPSHOT in any
\* letter case ends with an error, and a successful run of a request without module
\* returns no tag SNAPSHOT-version, nor, when a suffix was requested, a tag
\* version-SNAPSHOT.
C21_SnapshotIsReserved ==
  RunDone =>
    /\ AsksForSnapshot(request) => IsError(result)
    /\ (~IsError(result) /\ request.module = NoneStr) =>
         /\ ~StartsWith(Upper(result.value), SNAPSHOT \o <<"-">>)
         /\ request.suffix # NoneStr =>
              ~EndsWith(Upper(result.value), <<"-">> \o SNAPSHOT)

-----------------------------------------------------------------------------
(* Rounds of process_version_request and create_tag, under Spec *)

\* a step of ProcessVersionRequest that returned a tag name after a listing command,
\* if one was issued, that succeeded
ReturnsTag == github_output' # github_output /\ ~IsError(result') /\ ~result'.listing_failed

\* C26: in every sequence of rounds of process_version_request and create_tag with a
\* fixed request, version file and configuration, a run that succeeds never returns a
\* name that is already a tag of the repository.
C26_ReturnedTagIsNew ==
  [][ ReturnsTag => result'.value \notin repo_tags ]_vars

-----------------------------------------------------------------------------
(* The tags a request looks at, under Spec *)

\* the number of components of a VersionInfo
Granularity(version) ==
  IF version.patch # NoneInt THEN 3 ELSE IF version.minor # NoneInt THEN 2 ELSE 1

\* tag is N-base for the module or prefix N of the request, base-N for its suffix N, or
\* base for a request without qualifier, base having n numeric components
InNamespace(tag, req, n) ==
  IF Truthy(req.module) THEN
    /\ StartsWith(tag, req.module \o <<"-">>)
    /\ IsNumeric(SubSeq(tag, Len(req.module) + 2, Len(tag)), n)
  ELSE IF Truthy(req.prefix) THEN
    /\ StartsWith(tag, req.prefix \o <<"-">>)
    /\ IsNumeric(SubSeq(tag, Len(req.prefix) + 2, Len(tag)), n)
  ELSE IF Truthy(req.suffix) THEN
    /\ EndsWith(tag, <<"-">> \o req.suffix)
    /\ IsNumeric(SubSeq(tag, 1, Len(tag) - Len(req.suffix) - 1), n)
  ELSE IsNumeric(tag, n)

\* the tag the run returns on a repository that holds tags only, listed anew
ReturnedOn(tags) ==
  process_version_request(request, version_file, config, NoCache, NoneInt, _cache_ttl, now,
                          [ok |-> TRUE, lines |-> GitTagList(tags)]).value

\* C27: the current version of a successful run of process_version_request is parsed
\* from a tag N-base (module or prefix N), base-N (suffix N) or base (no qualifier) with
\* base of the baseline's granularity, and the tag returned is the one the run returns
\* on the repository without its tags of other namespaces and granularities.
C27_NamespacesPartitionTags ==
  [][ ReturnsTag =>
        /\ result'.current # NoVersion =>
             \E t \in repo_tags :
               /\ InNamespace(t, request, Granularity(result'.base))
               /\ parse(t) = result'.current
        /\ result'.value =
             ReturnedOn({t \in repo_tags : InNamespace(t, request, Granularity(result'.base))})
    ]_vars

\* a run for module node chose node-1.0.0 on a repository that also has my-node-1.0.1
C27_Witness ==
  /\ RunDone /\ ~IsError(result) /\ ~result.listing_failed
  /\ request.module = Str_node
  /\ repo_tags = {Tagged(Str_node, Num3(1, 0, 0)),
                  Tagged(<<"m", "y", "-">> \o Str_node, Num3(1, 0, 1))}
  /\ result.current # NoVersion
  /\ result.current.major = 1 /\ result.current.patch = 0

-----------------------------------------------------------------------------
(* The granularity of the tag returned under the default configuration, under Spec *)

\* C28: a successful run of process_version_request that starts from the default
\* configuration returns a version with as many components as the baseline read from
\* the version file, with or without matching tags.
C28_GranularityOfBaselineKept ==
  [][ (ReturnsTag /\ config = DefaultConfig) =>
        Granularity(result'.next_version) = Granularity(result'.base) ]_vars

-----------------------------------------------------------------------------
(* Module-qualified strings and the module-name rule, under SpecParse *)

\* the numbers of major[.minor[.patch]], absent components as None
ComponentsOf(numeric) ==
  LET parts == Split(numeric, ".")
  IN <<Atoi(parts[1]),
       IF Len(parts) >= 2 THEN Atoi(parts[2]) ELSE NoneInt,
       IF Len(parts) >= 3 THEN Atoi(parts[3]) ELSE NoneInt>>

\* C29: for every module name m that validate_module_name accepts and every version v
\* of one, two or three components, parse(m-v) returns a version that renders as m-v
\* and has the numbers of v.
C29_ModuleNamesParse ==
  (call.fn = "parse_render" /\ Done /\ call.version_string # NoneStr) =>
    \A i \in HyphenAt(call.version_string) :
      LET m == Before(call.version_string, i)
          v == After(call.version_string, i)
      IN (validate_module_name(m) /\ \E n \in 1..3 : IsCanonical(v, n)) =>
           /\ ~IsError(ret)
           /\ ret.text = call.version_string
           /\ <<ret.version.major, ret.version.minor, ret.version.patch>> = ComponentsOf(v)

-----------------------------------------------------------------------------
(* VersionParser.validate against VersionParser.parse, under SpecParse *)

\* C30: validate(s) never raises; it returns True when parse(s) returns a version and
\* False when parse(s) raises.
C30_ValidateIsTotal ==
  (call.fn = "validate" /\ Done) =>
    /\ ~IsError(ret)
    /\ ret.value = ~IsError(parse(call.version_string))

====
